---- MODULE Spec2Model ----
(***************************************************************************)
(* Model of the shots-on-target prediction pipeline of Football-App-1.1:   *)
(*   - utils/supabase_utils.py   fetch_with_deduplication (paginated fetch)*)
(*   - live_predictor_zip.py     load_and_merge_raw_data,                  *)
(*                               clean_and_enrich_data,                    *)
(*                               calculate_ma5_factors,                    *)
(*                               get_live_gameweek_features, main          *)
(*   - live_predictor.py         the older load_and_merge_raw_data / main  *)
(*   - data_loader.py            load_data_for_backtest                    *)
(*   - player_factor_engineer.py, feature_scaling.py, backtest_model.py   *)
(*                               the training frame and its NaN handling   *)
(*                                                                         *)
(* Numbers.  Raw statistics are naturals, NaN is the integer -1.  A mean   *)
(* is the exact rational [num, den] in lowest terms, NaN is den = 0.       *)
(* Timestamps are naturals; a calendar date is DateOf(timestamp).          *)
(***************************************************************************)
EXTENDS Integers, Sequences, FiniteSets, TLC

VARIABLES
    \* ---- fetch_with_deduplication (supabase_utils.py) ----
    fpc,            \* "idle" | "loop" | "done"
    all_data,       \* list of records kept so far
    seen_ids,       \* set of identifiers already kept
    offset,         \* current range offset
    pages,          \* the page responses received so far (the environment's history)
    fetch_error,    \* TRUE when a request raised and the loop was left by `break`
    \* ---- the data store read by the pipelines ----
    fixtures,       \* DataFrame of the fixtures table
    player_match_stats,   \* DataFrame of the player_match_stats table
    team_shooting_stats,  \* DataFrame of the team_shooting_stats table
    team_defense_stats,   \* DataFrame of the team_defense_stats table (older scripts)
    now,            \* pd.Timestamp.now() of the run
    model_type,     \* the environment variable MODEL_TYPE: "poisson" | "zip"
    files,          \* the files of the artifact directory and the report file
    \* ---- main() of the predictor / loader ----
    script,         \* which entry point runs: "zip" | "legacy" | "loader"
    pc,             \* position of main()
    df_combined_raw,\* result of load_and_merge_raw_data
    df_enriched,    \* result of clean_and_enrich_data
    df_processed,   \* result of calculate_ma5_factors
    df_live_raw,    \* result of get_live_gameweek_features
    outputs,        \* set of files written by the run
    log,            \* set of failure reports (logger.error / traceback)
    model,          \* the model returned by load_artifacts
    scaler_data,    \* the scaling statistics returned by load_artifacts
    df_scaled_input,\* result of scale_live_data
    \* ---- the training scripts ----
    final_feature_set,  \* the frame player_factor_engineer.py reads
    df_positions,   \* result of process_position_data
    df_pfactors,    \* result of calculate_player_ma5_factors
    df_scaled,      \* result of standardize_features
    training_stats, \* the statistics written to training_stats.json
    X_train,        \* the rows prepare_features hands to the model
    comparison_stats, \* zip_model_trainer.py: the AIC of the two fitted models
    \* ---- the scrapers (scrapeMatchLog.py, scrapeTeamStats.py) ----
    scraped_matches,\* rows of the scraped_matches table (match URLs)
    to_scrape,      \* process_all_matches: the fixtures still to visit in the loop
    requests,       \* the requests sent to the FBR API so far (the environment's history)
    attempt,        \* get_team_match_stats: the loop index
    clock,          \* seconds spent in time.sleep so far
    result,         \* get_team_match_stats: the returned value
    max_retries,    \* TeamStatsScraper.max_retries
    delay           \* TeamStatsScraper.delay

vars == <<fpc, all_data, seen_ids, offset, pages, fetch_error,
          fixtures, player_match_stats, team_shooting_stats, team_defense_stats,
          now, model_type, files,
          script, pc, df_combined_raw, df_enriched, df_processed, df_live_raw,
          outputs, log, model, scaler_data, df_scaled_input,
          final_feature_set, df_positions, df_pfactors, df_scaled, training_stats,
          X_train, comparison_stats,
          scraped_matches, to_scrape, requests, attempt, clock, result,
          max_retries, delay>>

fetchVars == <<fpc, all_data, seen_ids, offset, pages, fetch_error>>
storeVars == <<fixtures, player_match_stats, team_shooting_stats, team_defense_stats,
               now, model_type>>
mainVars  == <<script, pc, df_combined_raw, df_enriched, df_processed, df_live_raw,
               outputs, log, files, model, scaler_data, df_scaled_input>>
scoreVars == <<files, model, scaler_data, df_scaled_input>>
trainVars == <<final_feature_set, df_positions, df_pfactors, df_scaled, training_stats,
               X_train, comparison_stats>>
scrapeVars == <<scraped_matches, to_scrape, requests, attempt, clock, result,
                max_retries, delay>>

\* the value of a call that has not returned
Running == "running"

\* no scraper runs
ScraperIdle ==
    /\ scraped_matches = <<>> /\ to_scrape = <<>> /\ requests = <<>>
    /\ attempt = 0 /\ clock = 0 /\ result = Running
    /\ max_retries = 0 /\ delay = 0

(***************************************************************************)
(* Generic helpers                                                         *)
(***************************************************************************)
NaN == -1
IsNaN(x) == x = NaN

RECURSIVE SeqSum(_)
SeqSum(s) == IF s = <<>> THEN 0 ELSE Head(s) + SeqSum(Tail(s))

RECURSIVE SelectSeqBy(_, _)
\* boolean-mask selection df[mask]: keeps order; mask is a set of positions
SelectSeqBy(s, keep) ==
    IF s = <<>> THEN <<>>
    ELSE LET n == Len(s)
             front == SelectSeqBy(SubSeq(s, 1, n - 1), keep)
         IN  IF n \in keep THEN Append(front, s[n]) ELSE front

Min(S) == CHOOSE x \in S : \A y \in S : x <= y
Max(S) == CHOOSE x \in S : \A y \in S : x >= y

RECURSIVE Gcd(_, _)
Gcd(a, b) == IF b = 0 THEN a ELSE Gcd(b, a % b)

\* exact rationals; den = 0 is NaN
NaNQ == [num |-> 0, den |-> 0]
Q(a, b) == IF b = 0 THEN NaNQ
           ELSE LET g == Gcd(a, b) IN [num |-> a \div g, den |-> b \div g]
IsNaNQ(q) == q.den = 0
AddQ(p, q) == Q(p.num * q.den + q.num * p.den, p.den * q.den)
SubQ(p, q) == Q(p.num * q.den - q.num * p.den, p.den * q.den)
MulQ(p, q) == Q(p.num * q.num, p.den * q.den)
RECURSIVE SumQ(_)
SumQ(s) == IF s = <<>> THEN Q(0, 1) ELSE AddQ(Head(s), SumQ(Tail(s)))

\* a scaled value (x - mean) / std: the deviation and the square std^2 of
\* the divisor, so that the square root taken by the scaler stays exact
NaNScaled == [dev |-> NaNQ, var |-> NaNQ]
\* zip_model_trainer.py: no model has been fitted
NoComparison ==
    [zip_aic |-> 0, zip_converged |-> FALSE, poisson_fitted |-> FALSE, poisson_aic |-> 0]
\* the column of zeros written when std is 0
ZeroScaled == [dev |-> Q(0, 1), var |-> Q(1, 1)]
\* no statistics file has been written; std is kept as its square std2
NoStats == [sot_MA5 |-> [mean |-> NaNQ, std2 |-> NaNQ],
            sot_conceded_MA5 |-> [mean |-> NaNQ, std2 |-> NaNQ]]
\* q >= a/b for a defined q (b > 0); a comparison with NaN is False in pandas
GeQ(q, a, b) == q.den > 0 /\ q.num * b >= a * q.den

\* Series.mean(): mean of the values that are not NaN, NaN when there is none
MeanOf(s) ==
    LET vals == SelectSeqBy(s, {i \in 1..Len(s) : ~IsNaN(s[i])})
    IN  Q(SeqSum(vals), Len(vals))

RECURSIVE Concat(_)
\* pd.concat / the row groups of a merge: the rows of a list of frames, in order
Concat(frames) ==
    IF frames = <<>> THEN <<>> ELSE Head(frames) \o Concat(Tail(frames))

RECURSIVE LessBy(_, _, _)
\* row a sorts before row b on the columns `by`, compared in that order
LessBy(by, a, b) ==
    IF by = <<>> THEN FALSE
    ELSE \/ a[Head(by)] < b[Head(by)]
         \/ a[Head(by)] = b[Head(by)] /\ LessBy(Tail(by), a, b)

RECURSIVE InsertSorted(_, _, _)
\* x goes after every element that is not greater than it: the sort is stable
InsertSorted(by, x, s) ==
    IF s = <<>> THEN <<x>>
    ELSE IF LessBy(by, x, Head(s)) THEN <<x>> \o s
         ELSE <<Head(s)>> \o InsertSorted(by, x, Tail(s))

RECURSIVE StableSort(_, _)
\* sort_values(by=...)
StableSort(by, s) ==
    IF s = <<>> THEN <<>>
    ELSE InsertSorted(by, s[Len(s)], StableSort(by, SubSeq(s, 1, Len(s) - 1)))

\* the positions of s that satisfy a mask, as a list in order
Positions(s, keep) == SelectSeqBy([i \in 1..Len(s) |-> i], keep)

(***************************************************************************)
(* fetch_with_deduplication  (utils/supabase_utils.py)                     *)
(***************************************************************************)
(* The artifact directory: the pickled model and the scaling statistics    *)
(***************************************************************************)
\* the report written into the artifact directory, over the statistics
PREDICTION_OUTPUT_OVER_STATS == "src/services/ai/artifacts/training_stats.json"

\* live_predictor_zip.py 45-57, live_predictor.py 23-26
POISSON_MODEL_FILE == "src/services/ai/artifacts/poisson_model.pkl"
ZIP_MODEL_FILE == "src/services/ai/artifacts/zip_model.pkl"
TRAINING_STATS_FILE == "src/services/ai/artifacts/training_stats.json"
ZIP_STATS_FILE == "src/services/ai/artifacts/zip_training_stats.json"
PREDICTION_OUTPUT == "gameweek_sot_recommendations.csv"

\* live_predictor_zip.py 50-55
MODEL_FILE(mt) == IF mt = "zip" THEN ZIP_MODEL_FILE ELSE POISSON_MODEL_FILE
STATS_FILE(mt) == IF mt = "zip" THEN ZIP_STATS_FILE ELSE TRAINING_STATS_FILE

ArtifactFiles == {POISSON_MODEL_FILE, ZIP_MODEL_FILE, TRAINING_STATS_FILE, ZIP_STATS_FILE}

\* a file of the disk: open() raises FileNotFoundError when exists is FALSE
File(c) == [exists |-> TRUE, content |-> c]
NoFile == [exists |-> FALSE, content |-> <<>>]

\* the feature lists of the scripts that fit or score a model
\* live_predictor_zip.py 81-89
ZIP_PREDICTOR_COLUMNS ==
    <<"sot_conceded_MA5_scaled", "sot_MA5_scaled", "npxg_MA5_scaled", "summary_min",
      "is_forward", "is_defender", "is_home">>
\* live_predictor_zip.py 96-102
INFLATION_PREDICTOR_COLUMNS ==
    <<"sot_MA5_scaled", "npxg_MA5_scaled", "is_forward", "is_defender", "is_home">>
\* live_predictor.py 34-37
LEGACY_PREDICTOR_COLUMNS ==
    <<"sot_conceded_MA5_scaled", "tackles_att_3rd_MA5_scaled", "sot_MA5_scaled",
      "min_MA5_scaled", "summary_min">>
\* backtest_model.py 18-24
BACKTEST_PREDICTOR_COLUMNS ==
    <<"sot_conceded_MA5_scaled", "sot_MA5_scaled", "summary_min", "is_forward",
      "is_defender">>
\* zip_model_trainer.py 34-42
TRAINER_PREDICTOR_COLUMNS ==
    <<"sot_conceded_MA5_scaled", "tackles_att_3rd_MA5_scaled", "sot_MA5_scaled",
      "min_MA5_scaled", "summary_min", "is_forward", "is_defender">>

\* sm.add_constant(X, has_constant='add'): the column const comes first
add_constant(cols) == <<"const">> \o cols

\* the coefficients of a fitted model, one per column of its design matrix
\* in the order of the columns; the values are those of one fit
ParamsFor(names) == [k \in 1..Len(names) |-> k % 3]

\* a fitted results object: GLM Poisson (backtest_model.py 209-223) or
\* ZeroInflatedPoisson (zip_model_trainer.py 298-332); n_counts is
\* max(endog) + 1 of the training target, the width of predict(which='prob')
PoissonResults(cols) ==
    [kind |-> "poisson", exog_names |-> add_constant(cols),
     params |-> ParamsFor(add_constant(cols)),
     exog_infl_names |-> <<>>, params_infl |-> <<>>, n_counts |-> 0]
ZipResults(cols, infl_cols, k) ==
    [kind |-> "zip", exog_names |-> add_constant(cols),
     params |-> ParamsFor(add_constant(cols)),
     exog_infl_names |-> add_constant(infl_cols),
     params_infl |-> [j \in 1..(Len(infl_cols) + 1) |-> 0], n_counts |-> k]
\* the results of a fit whose coefficient of the first predictor, the
\* opponent factor, is beta: GLM(...).fit() puts no bound on a coefficient
PoissonResultsWith(cols, beta) ==
    [PoissonResults(cols) EXCEPT !.params[2] = beta]
NoModel ==
    [kind |-> "none", exog_names |-> <<>>, params |-> <<>>,
     exog_infl_names |-> <<>>, params_infl |-> <<>>, n_counts |-> 0]

\* the statistics dictionary {feature: {'mean', 'std'}} of training_stats.json;
\* std is kept as its square std2, zero_stem is a feature whose std is 0
AllStems == {"sot_conceded_MA5", "sot_MA5", "npxg_MA5", "tackles_att_3rd_MA5", "min_MA5"}
StatsDict(stems, zero_stem) ==
    [st \in stems |-> [mean |-> Q(1, 1),
                       std2 |-> IF st = zero_stem THEN Q(0, 1) ELSE Q(4, 1)]]
\* zip_model_trainer.py 316-326: the statistics file of the ZIP trainer
ZipStatsOf(aic) == [model_type |-> "ZeroInflatedPoisson", aic |-> aic]
ZipStatsDict == ZipStatsOf(0)

\* the statistics files found in the directory: the one feature_scaling.py
\* writes, the one each predictor needs, and one that covers every feature
StemSets ==
    {{"sot_MA5", "sot_conceded_MA5"},
     {"sot_conceded_MA5", "sot_MA5", "npxg_MA5"},
     {"sot_conceded_MA5", "tackles_att_3rd_MA5", "sot_MA5", "min_MA5"},
     AllStems}

\* the directory as uploaded
Directory(poisson, zip, stats, zip_stats) ==
    (POISSON_MODEL_FILE :> poisson) @@ (ZIP_MODEL_FILE :> zip)
    @@ (TRAINING_STATS_FILE :> stats) @@ (ZIP_STATS_FILE :> zip_stats)
    @@ (PREDICTION_OUTPUT :> NoFile)

\* the directory whose files were produced for script sc
GoodDirectory(sc) ==
    IF sc = "legacy"
    THEN Directory(File(PoissonResults(LEGACY_PREDICTOR_COLUMNS)), NoFile,
                   File(StatsDict({"sot_conceded_MA5", "tackles_att_3rd_MA5",
                                   "sot_MA5", "min_MA5"}, "none")), NoFile)
    ELSE Directory(File(PoissonResults(ZIP_PREDICTOR_COLUMNS)),
                   File(ZipResults(ZIP_PREDICTOR_COLUMNS, INFLATION_PREDICTOR_COLUMNS, 1)),
                   File(StatsDict({"sot_conceded_MA5", "sot_MA5", "npxg_MA5"}, "none")),
                   File(ZipStatsDict))

NoFeatures == [columns |-> <<>>, rows |-> <<>>]

\* live_predictor_zip.py 496-535: the model and the statistics, or exit(1)
\* when a file is missing or the statistics lack npxg_MA5
zip_load_artifacts_fails(fs, mt) ==
    \/ ~fs[MODEL_FILE(mt)].exists
    \/ ~fs[STATS_FILE(mt)].exists
    \/ "model_type" \in DOMAIN fs[STATS_FILE(mt)].content
          /\ ~fs[TRAINING_STATS_FILE].exists
zip_scaler_dict(fs, mt) ==
    IF "model_type" \in DOMAIN fs[STATS_FILE(mt)].content
    THEN fs[TRAINING_STATS_FILE].content
    ELSE fs[STATS_FILE(mt)].content

(***************************************************************************)
\* the page size of range(offset, offset + limit - 1); 1000 in the source,
\* scaled down here
limit == 2
\* largest number of records of a source table
MaxRecords == 5
\* largest number of requests followed in one fetch (a table without
\* identifiers and ever-overlapping ranges would be fetched forever)
MaxPages == 4

NoId == 0     \* record.get("id") is None

\* The source table in its order_by order.  Either every record carries its
\* identifier, or the table has no id column and record.get("id") is None.
SourceTable(n, withIds) ==
    [i \in 1..n |-> [id |-> IF withIds THEN i ELSE NoId, row |-> i]]

\* .range(offset, offset + limit - 1) answered from position `start` (1-based):
\* start = offset + 1 is the exact range, a smaller start is a range that
\* overlaps the previous ones (rows inserted or reordered between requests).
PageAt(table, start) ==
    SubSeq(table, start, Min({Len(table), start + limit - 1}))

\* line 62-69: is the record appended?
KeepRecordNoDedup(record_id, seen) == TRUE
KeepRecord(record_id, seen) == record_id = NoId \/ record_id \notin seen

RECURSIVE Dedup(_, _, _, _)
\* lines 58-70: the for loop over one page; returns the new
\* (all_data, seen_ids, new_records)
Dedup(data, acc, seen, new_records) ==
    IF data = <<>> THEN [all_data |-> acc, seen_ids |-> seen, new_records |-> new_records]
    ELSE LET record == Head(data)
             record_id == record.id
         IN  IF KeepRecord(record_id, seen)
             THEN Dedup(Tail(data), Append(acc, record),
                        IF record_id = NoId THEN seen ELSE seen \cup {record_id},
                        new_records + 1)
             ELSE Dedup(Tail(data), acc, seen, new_records)

\* the table being fetched is kept in player_match_stats
InitFetch ==
    /\ \E n \in 0..MaxRecords, withIds \in BOOLEAN :
          player_match_stats = SourceTable(n, withIds)
    /\ fixtures = <<>> /\ team_shooting_stats = <<>> /\ team_defense_stats = <<>>
    /\ now = 0
    /\ fpc = "loop" /\ all_data = <<>> /\ seen_ids = {} /\ offset = 0
    /\ ScraperIdle
    /\ pages = <<>> /\ fetch_error = FALSE
    /\ script = "fetch" /\ pc = "fetching"
    /\ df_combined_raw = <<>> /\ df_enriched = <<>> /\ df_processed = <<>>
    /\ df_live_raw = <<>> /\ outputs = {} /\ log = {}
    /\ model_type = "poisson" /\ files = GoodDirectory("zip")
    /\ model = NoModel /\ scaler_data = <<>> /\ df_scaled_input = NoFeatures
    /\ final_feature_set = <<>> /\ df_positions = <<>>
    /\ df_pfactors = <<>> /\ df_scaled = <<>>
    /\ training_stats = NoStats /\ X_train = <<>>
    /\ comparison_stats = NoComparison

\* lines 40-76: one iteration of `while True` whose request succeeds
FetchPage ==
    /\ fpc = "loop"
    /\ Len(pages) < MaxPages
    /\ \E start \in 1..(offset + 1) :
         LET data == PageAt(player_match_stats, start)
             r == Dedup(data, all_data, seen_ids, 0)
         IN  /\ pages' = Append(pages, data)
             /\ IF data = <<>>
                THEN /\ fpc' = "done"
                     /\ UNCHANGED <<all_data, seen_ids, offset>>
                ELSE /\ all_data' = r.all_data
                     /\ seen_ids' = r.seen_ids
                     /\ IF Len(data) < limit \/ r.new_records = 0
                        THEN fpc' = "done" /\ offset' = offset
                        ELSE fpc' = "loop" /\ offset' = offset + limit
    /\ fetch_error' = FALSE
    /\ UNCHANGED <<storeVars, scrapeVars, mainVars, trainVars>>

\* lines 49-51: the request raises; the error is logged and the loop left
FetchRaise ==
    /\ fpc = "loop"
    /\ fpc' = "done"
    /\ fetch_error' = TRUE
    /\ log' = log \cup {"fetch_error"}
    /\ UNCHANGED <<all_data, seen_ids, offset, pages, storeVars, scrapeVars, trainVars,
                   scoreVars, script, pc, df_combined_raw, df_enriched, df_processed,
                   df_live_raw, outputs>>

NextFetch == FetchPage \/ FetchRaise
SpecFetch == InitFetch /\ [][NextFetch]_vars

\* identifiers delivered by page k
PageIds(k) == {pages[k][i].id : i \in 1..Len(pages[k])} \ {NoId}
Occurrences(id) == {i \in 1..Len(all_data) : all_data[i].id = id}

\* C7: whatever overlapping pages were delivered, the collection holds no two
\* records with the same identifier, and every identifier delivered (in one
\* page or in several) is held exactly once.
C7_FetchDedup ==
    /\ \A i, j \in 1..Len(all_data) :
          (i # j /\ all_data[i].id # NoId) => all_data[i].id # all_data[j].id
    /\ \A k \in 1..Len(pages) : \A id \in PageIds(k) :
          Cardinality(Occurrences(id)) = 1

\* a finished fetch in which one record came in two pages and is held once
C7_Witness ==
    /\ fpc = "done" /\ ~fetch_error
    /\ \E k1, k2 \in 1..Len(pages) : \E id \in PageIds(k1) \cap PageIds(k2) :
          k1 # k2 /\ Cardinality(Occurrences(id)) = 1

(***************************************************************************)
(* live_predictor_zip.py: configuration                                    *)
(***************************************************************************)
MIN_PERIODS == 5
MIN_MATCHES_PLAYED == 3
\* MIN_EXPECTED_MINUTES = 15.0
MIN_EXPECTED_MINUTES == 15
\* MIN_SOT_MA5 = 0.1 and ATTACKING_DEFENDER_THRESHOLD = 0.3, in tenths
MIN_SOT_MA5_TENTHS == 1
ATTACKING_DEFENDER_TENTHS == 3

SCHEDULED_STATUSES == {"scheduled", "fixture", "upcoming", "not started"}

\* POSITION_MAPPING (None: the code is no key of the mapping)
NoGroup == "NaN"
POSITION_MAPPING(code) ==
    CASE code = "GK" -> "Goalkeeper"
      [] code \in {"DF", "CB", "LB", "RB", "WB"} -> "Defender"
      [] code \in {"MF", "CM", "DM", "AM", "LM", "RM"} -> "Midfielder"
      [] code \in {"FW", "LW", "RW"} -> "Forward"
      [] OTHER -> NoGroup

\* .dt.date of a timestamp: two kick-off slots per calendar day
DateOf(t) == t \div 2

\* str.strip().str.lower() on the status values the store holds
NormStatus(st) ==
    CASE st = "Scheduled" -> "scheduled"
      [] st = " scheduled" -> "scheduled"
      [] st = "Finished" -> "finished"
      [] OTHER -> st

\* safe_extract_position: summary_positions is the list of codes of the
\* stored string ('FW,MF' or '["FW", "MF"]'); <<>> is a missing value
NoCode == "None"
safe_extract_position(pos_str) ==
    IF pos_str = <<>> THEN NoCode ELSE Head(pos_str)

(***************************************************************************)
(* load_and_merge_raw_data  (live_predictor_zip.py 147-250)                *)
(***************************************************************************)
\* lines 158-165: the fixtures frame with normalised status, date, is_future
PrepFixtures(fx, t_now) ==
    [i \in 1..Len(fx) |->
        [datetime |-> fx[i].datetime, home_team |-> fx[i].home_team,
         away_team |-> fx[i].away_team, matchweek |-> fx[i].matchweek,
         status |-> NormStatus(fx[i].status),
         match_date |-> DateOf(fx[i].datetime),
         is_future |-> fx[i].datetime > t_now]]

\* line 193: left merge of the player history with the team defence rows
\* on (match_date, team_name)
MergeTeamDef(hist, team_def) ==
    LET OneRow(r) ==
          LET hits == Positions(team_def,
                         {j \in 1..Len(team_def) :
                             /\ team_def[j].match_date = DateOf(r.match_datetime)
                             /\ team_def[j].team_name = r.team_name})
              With(c) == [id |-> r.id, player_id |-> r.player_id,
                          team_name |-> r.team_name, sot |-> r.summary_sot,
                          min |-> r.summary_min, npxg |-> r.summary_non_pen_xg,
                          home_team |-> r.home_team, away_team |-> r.away_team,
                          team_side |-> r.team_side,
                          match_datetime |-> r.match_datetime,
                          summary_positions |-> r.summary_positions,
                          sot_conceded |-> c]
          IN  IF hits = <<>> THEN <<With(NaN)>>
              ELSE [k \in 1..Len(hits) |-> With(team_def[hits[k]].sot_conceded)]
    IN  Concat([ix \in 1..Len(hist) |-> OneRow(hist[ix])])

\* lines 194-203: left merge with the fixtures on (match_date, home, away)
MergeFixtures(hist, fx) ==
    LET OneRow(r) ==
          LET hits == Positions(fx,
                         {j \in 1..Len(fx) :
                             /\ fx[j].match_date = DateOf(r.match_datetime)
                             /\ fx[j].home_team = r.home_team
                             /\ fx[j].away_team = r.away_team})
              With(mw, st) == [id |-> r.id, player_id |-> r.player_id,
                          team_name |-> r.team_name, sot |-> r.sot,
                          min |-> r.min, npxg |-> r.npxg,
                          home_team |-> r.home_team, away_team |-> r.away_team,
                          team_side |-> r.team_side,
                          match_datetime |-> r.match_datetime,
                          summary_positions |-> r.summary_positions,
                          sot_conceded |-> r.sot_conceded,
                          matchweek |-> mw, status |-> st]
          IN  IF hits = <<>> THEN <<With(NaN, "nan")>>
              ELSE [k \in 1..Len(hits) |-> With(fx[hits[k]].matchweek, fx[hits[k]].status)]
    IN  Concat([ix \in 1..Len(hist) |-> OneRow(hist[ix])])

\* line 205: groupby('player_id').size()
MatchCount(hist, p) == Cardinality({i \in 1..Len(hist) : hist[i].player_id = p})

\* line 206: the players with enough history
qualified_player_ids(hist) ==
    {hist[i].player_id : i \in {j \in 1..Len(hist) :
         MatchCount(hist, hist[j].player_id) >= MIN_MATCHES_PLAYED}}

ByDatetime == <<"match_datetime">>
ByDatetimePlayer == <<"match_datetime", "player_id">>

\* lines 209-215: one row per qualified player, taken from the player's
\* last record in match_datetime order; the rows come in player_id order
active_players(hist) ==
    LET ids == qualified_player_ids(hist)
        LastOf(p) ==
            LET mine == StableSort(ByDatetime,
                           SelectSeqBy(hist, {i \in 1..Len(hist) : hist[i].player_id = p}))
            IN  mine[Len(mine)]
        order == Positions([i \in 1..Max(ids \cup {0}) |-> i],
                           {i \in 1..Max(ids \cup {0}) : i \in ids})
    IN  [k \in 1..Len(order) |->
            [player_id |-> order[k], team_name |-> LastOf(order[k]).team_name,
             summary_positions |-> LastOf(order[k]).summary_positions]]

\* lines 217-220
df_future_fixtures(fx) ==
    SelectSeqBy(fx, {i \in 1..Len(fx) :
        fx[i].status \in SCHEDULED_STATUSES \/ fx[i].is_future})

\* lines 224-235 and 240-241: the placeholder rows of one side of a fixture
SideRows(active, fixture, side, team) ==
    LET side_players == SelectSeqBy(active,
                           {i \in 1..Len(active) : active[i].team_name = team})
    IN  [k \in 1..Len(side_players) |->
            [id |-> NoId, player_id |-> side_players[k].player_id,
             team_name |-> side_players[k].team_name,
             sot |-> NaN, min |-> NaN, npxg |-> NaN,
             home_team |-> fixture.home_team, away_team |-> fixture.away_team,
             team_side |-> side,
             match_datetime |-> fixture.datetime,
             summary_positions |-> side_players[k].summary_positions,
             sot_conceded |-> NaN,
             matchweek |-> fixture.matchweek, status |-> fixture.status]]

\* lines 222-237
FutureRows(active, future_fx) ==
    LET OneFixture(f) == SideRows(active, f, "home", f.home_team)
                         \o SideRows(active, f, "away", f.away_team)
    IN  Concat([ix \in 1..Len(future_fx) |-> OneFixture(future_fx[ix])])

\* lines 193-244 for non-empty source frames
MergedFrame(fx_raw, hist, team_def, t_now) ==
    LET fx == PrepFixtures(fx_raw, t_now)
        df_historical == MergeFixtures(MergeTeamDef(hist, team_def), fx)
        df_future == FutureRows(active_players(hist), df_future_fixtures(fx))
    IN  StableSort(ByDatetimePlayer, df_historical \o df_future)

(***************************************************************************)
(* clean_and_enrich_data  (live_predictor_zip.py 252-275)                  *)
(***************************************************************************)
\* line 261: .map(POSITION_MAPPING).fillna('Midfielder')
position_group(pos_str) ==
    LET g == POSITION_MAPPING(safe_extract_position(pos_str))
    IN  IF g = NoGroup THEN "Midfielder" ELSE g

Enrich(r) ==
    [id |-> r.id, player_id |-> r.player_id, team_name |-> r.team_name,
     sot |-> r.sot, min |-> r.min, npxg |-> r.npxg,
     home_team |-> r.home_team, away_team |-> r.away_team,
     team_side |-> r.team_side, match_datetime |-> r.match_datetime,
     summary_positions |-> r.summary_positions,
     sot_conceded |-> r.sot_conceded,
     matchweek |-> r.matchweek, status |-> r.status,
     position_group |-> position_group(r.summary_positions),
     is_forward |-> IF position_group(r.summary_positions) = "Forward" THEN 1 ELSE 0,
     is_defender |-> IF position_group(r.summary_positions) = "Defender" THEN 1 ELSE 0,
     is_home |-> IF r.team_side = "home" THEN 1 ELSE 0]

clean_and_enrich(df) ==
    LET kept == SelectSeqBy(df, {i \in 1..Len(df) :
                    position_group(df[i].summary_positions) # "Goalkeeper"})
    IN  [i \in 1..Len(kept) |-> Enrich(kept[i])]

(***************************************************************************)
(* calculate_ma5_factors  (live_predictor_zip.py 278-348)                  *)
(***************************************************************************)
\* FixedWindowIndexer of x.rolling(window, min_periods=1, closed='left'):
\* for the j-th value of a group (1-based) the window is the positions
\* j - window .. j - 1, clipped at the start of the group
WindowStart(j, window) == Max({1, j - window})
WindowEnd(j) == j - 1

\* rolling(...).mean() at the j-th value of the series x of one group
RollingMean(x, j) ==
    MeanOf(SubSeq(x, WindowStart(j, MIN_PERIODS), WindowEnd(j)))

\* lines 299-302: groupby('player_id')[col].transform(rolling mean);
\* col names the column, i is the row of the frame
PlayerMA5(df, col, i) ==
    LET group == Positions(df, {k \in 1..Len(df) : df[k].player_id = df[i].player_id})
        j == Cardinality({k \in 1..i : df[k].player_id = df[i].player_id})
        x == [k \in 1..Len(group) |-> df[group[k]][col]]
    IN  RollingMean(x, j)

\* lines 311-315
opponent_team(r) == IF r.team_side = "home" THEN r.away_team ELSE r.home_team

\* lines 324-327: the opponent's rows before the row, in match_datetime order
\* (the frame is in that order already; rows of equal time keep their order)
opponent_history(df, i) ==
    StableSort(ByDatetime,
        SelectSeqBy(df, {k \in 1..Len(df) :
            /\ df[k].team_name = opponent_team(df[i])
            /\ df[k].match_datetime < df[i].match_datetime}))

\* lines 329-335
OpponentMA5(df, i) ==
    LET h == opponent_history(df, i)
        conceded == [k \in 1..Len(h) |-> h[k].sot_conceded]
    IN  IF Len(h) >= MIN_PERIODS
        THEN MeanOf(SubSeq(conceded, Len(h) - MIN_PERIODS + 1, Len(h)))
        ELSE IF Len(h) > 0 THEN MeanOf(conceded) ELSE NaNQ

\* lines 342-344: mean of sot_conceded over the rows that carry it
league_avg(df) == MeanOf([k \in 1..Len(df) |-> df[k].sot_conceded])

\* lines 340-346: fillna(league_avg) when a value is missing and some row
\* carries the metric
FillZero(df, v) == IF IsNaNQ(v) THEN Q(0, 1) ELSE v
FillLeagueAvg(df, v) ==
    IF IsNaNQ(v) /\ ~IsNaNQ(league_avg(df)) THEN league_avg(df) ELSE v


Processed(df, i) ==
    LET r == df[i]
    IN  [id |-> r.id, player_id |-> r.player_id, team_name |-> r.team_name,
         sot |-> r.sot, min |-> r.min, npxg |-> r.npxg,
         home_team |-> r.home_team, away_team |-> r.away_team,
         team_side |-> r.team_side, match_datetime |-> r.match_datetime,
         sot_conceded |-> r.sot_conceded,
         matchweek |-> r.matchweek, status |-> r.status,
         position_group |-> r.position_group,
         is_forward |-> r.is_forward, is_defender |-> r.is_defender,
         is_home |-> r.is_home,
         sot_MA5 |-> PlayerMA5(df, "sot", i),
         min_MA5 |-> PlayerMA5(df, "min", i),
         npxg_MA5 |-> PlayerMA5(df, "npxg", i),
         opponent_team |-> opponent_team(r),
         sot_conceded_MA5 |-> FillLeagueAvg(df, OpponentMA5(df, i))]

calculate_ma5(df) == [i \in 1..Len(df) |-> Processed(df, i)]

(***************************************************************************)
(* get_live_gameweek_features  (live_predictor_zip.py 351-493)             *)
(***************************************************************************)
\* lines 355-358 (the frame has no is_future column: .get gives False)
scheduled_games(df) ==
    SelectSeqBy(df, {i \in 1..Len(df) : df[i].status \in SCHEDULED_STATUSES})

\* line 363: min() skips NaN
next_gameweek(sched) ==
    LET weeks == {sched[i].matchweek : i \in 1..Len(sched)} \ {NaN}
    IN  IF weeks = {} THEN NaN ELSE Min(weeks)

\* line 393: dropna(subset=REQUIRED_MA5_COLUMNS)
HasAllFactorsNoCheck(r) == TRUE
HasAllFactors(r) ==
    /\ ~IsNaNQ(r.sot_MA5) /\ ~IsNaNQ(r.min_MA5) /\ ~IsNaNQ(r.npxg_MA5)
    /\ ~IsNaNQ(r.sot_conceded_MA5)

\* lines 466-470: forwards and midfielders first, then attacking defenders
HybridFilter(df) ==
    SelectSeqBy(df, {i \in 1..Len(df) :
        df[i].position_group \in {"Forward", "Midfielder"}})
    \o SelectSeqBy(df, {i \in 1..Len(df) :
        /\ df[i].position_group = "Defender"
        /\ GeQ(df[i].sot_MA5, ATTACKING_DEFENDER_TENTHS, 10)})

\* lines 355-441: the rows of the next gameweek that pass the history,
\* minutes and shots filters
live_candidates(df) ==
    LET sched == scheduled_games(df)
        gw == next_gameweek(sched)
        df_live == SelectSeqBy(sched, {i \in 1..Len(sched) :
                       gw # NaN /\ sched[i].matchweek = gw})
        no_nan == SelectSeqBy(df_live, {i \in 1..Len(df_live) :
                       HasAllFactors(df_live[i])})
        mins == SelectSeqBy(no_nan, {i \in 1..Len(no_nan) :
                       GeQ(no_nan[i].min_MA5, MIN_EXPECTED_MINUTES, 1)})
    IN  SelectSeqBy(mins, {i \in 1..Len(mins) :
            GeQ(mins[i].sot_MA5, MIN_SOT_MA5_TENTHS, 10)})

get_live_gameweek(df) ==
    LET q == HybridFilter(live_candidates(df))
    IN  \* line 491: summary_min = min_MA5
        [i \in 1..Len(q) |-> ("summary_min" :> q[i].min_MA5) @@ q[i]]

(***************************************************************************)
(* The data store the runs read.  Two teams, A and B, meet in fixture k at *)
(* time 2k (matchweek k).  Players 1 and 2 belong to A, player 3 to B.     *)
(***************************************************************************)
\* largest number of played fixtures and of fixtures still to play
MaxPlayed == 6
MaxFuture == 2
\* the most requests of player_match_stats answered before one raises
FailAfterPages == 7

Players == {1, 2, 3}
TeamOf(p) == IF p = 3 THEN "B" ELSE "A"
HomeOf(k) == IF k % 2 = 1 THEN "A" ELSE "B"
AwayOf(k) == IF k % 2 = 1 THEN "B" ELSE "A"
PositionsOf(p) == CASE p = 1 -> <<"FW", "MF">> [] p = 2 -> <<"AM">> [] OTHER -> <<"DF">>

\* the shapes of the stored statistics
Profiles == 0..10
SlopeOf(prof) == IF prof \in {0, 2} THEN prof ELSE 1
NoXg(prof)  == prof = 3      \* player 1's rows carry no xG
Gap(prof)   == prof = 4      \* player 3's shots are missing after the debut
Dup(prof)   == prof = 5      \* player 1's last record is stored twice
NoMatch(prof) == prof = 6    \* the team rows are stored under other dates
Transfer(prof) == prof = 7   \* player 2 moved from A to B after fixture 2
Keeper(prof) == prof = 8     \* player 2 is a goalkeeper
Fading(prof) == prof = 9     \* player 3 shot twice on the debut, once in fixture 6

\* player 2's code is no key of the mapping, player 3's positions are missing
BadCode(prof) == prof = 10

PositionsAt(p, prof) ==
    IF Keeper(prof) /\ p = 2 THEN <<"GK">>
    ELSE IF BadCode(prof) /\ p = 2 THEN <<"SUB">>
    ELSE IF BadCode(prof) /\ p = 3 THEN <<>>
    ELSE PositionsOf(p)

TeamAt(p, k, prof) == IF Transfer(prof) /\ p = 2 /\ k > 2 THEN "B" ELSE TeamOf(p)

FixtureRow(k, played, stale) ==
    [id |-> k, datetime |-> 2 * k, home_team |-> HomeOf(k), away_team |-> AwayOf(k),
     matchweek |-> k,
     status |-> IF k < played \/ (k = played /\ ~stale) THEN "Finished" ELSE "Scheduled"]

FixturesOf(played, future, stale) ==
    [k \in 1..(played + future) |-> FixtureRow(k, played, stale)]

PlayerRow(rid, p, k, prof) ==
    [id |-> rid, player_id |-> p, team_name |-> TeamAt(p, k, prof),
     summary_sot |-> IF Gap(prof) /\ p = 3 /\ k > 1 THEN NaN
                     ELSE IF Fading(prof) /\ p = 3
                          THEN (IF k = 1 THEN 2 ELSE IF k = 6 THEN 1 ELSE 0)
                     ELSE (SlopeOf(prof) * k + p) % 3,
     summary_min |-> IF p = 3 /\ SlopeOf(prof) = 2 THEN 10 ELSE 30 * (1 + ((k + p) % 3)),
     summary_non_pen_xg |-> IF NoXg(prof) /\ p = 1 THEN NaN ELSE (k + p) % 2,
     home_team |-> HomeOf(k), away_team |-> AwayOf(k),
     team_side |-> IF TeamAt(p, k, prof) = HomeOf(k) THEN "home" ELSE "away",
     match_datetime |-> 2 * k,
     summary_positions |-> PositionsAt(p, prof)]

\* the records of fixture k: every player that has made the debut
MatchRows(k, debut2, prof) ==
    LET ps == Positions(<<1, 2, 3>>, {p \in 1..3 : p # 2 \/ k >= debut2})
    IN  [n \in 1..Len(ps) |-> PlayerRow(10 * k + ps[n], ps[n], k, prof)]

RECURSIVE HistoryOf(_, _, _)
HistoryOf(played, debut2, prof) ==
    IF played = 0 THEN <<>>
    ELSE HistoryOf(played - 1, debut2, prof) \o MatchRows(played, debut2, prof)

PlayerStatsOf(played, debut2, prof) ==
    LET h == HistoryOf(played, debut2, prof)
    IN  IF Dup(prof) /\ played > 0
        THEN Append(h, [PlayerRow(10 * played + 9, 1, played, prof)
                           EXCEPT !.summary_sot = (@ + 1) % 3])
        ELSE h

TeamRow(k, team, prof) ==
    [id |-> 10 * k + (IF team = "A" THEN 1 ELSE 2),
     match_date |-> IF NoMatch(prof) THEN k + 100 ELSE k,
     team_name |-> team,
     sot_conceded |-> (SlopeOf(prof) * k + (IF team = "A" THEN 0 ELSE 1)) % 3]

TeamStatsOf(played, prof) ==
    LET One(k) == <<TeamRow(k, "A", prof), TeamRow(k, "B", prof)>>
    IN  Concat([ix \in 1..played |-> One(ix)])

TackleRow(k, team) ==
    [match_date |-> k, team_name |-> team, tackles_att_3rd |-> (k + 1) % 3]

TackleStatsOf(played) ==
    LET One(k) == <<TackleRow(k, "A"), TackleRow(k, "B")>>
    IN  Concat([ix \in 1..played |-> One(ix)])

\* a table as fetched, or fetched empty
Emptied(table, name, emptied) == IF name \in emptied THEN <<>> ELSE table

Tables == {"fixtures", "player_match_stats", "team_shooting_stats", "team_defense_stats"}

InitStore(played, future, stale, debut2, prof, emptied) ==
    /\ fixtures = Emptied(FixturesOf(played, future, stale), "fixtures", emptied)
    /\ player_match_stats =
          Emptied(PlayerStatsOf(played, debut2, prof), "player_match_stats", emptied)
    /\ team_shooting_stats =
          Emptied(TeamStatsOf(played, prof), "team_shooting_stats", emptied)
    /\ team_defense_stats =
          Emptied(TackleStatsOf(played), "team_defense_stats", emptied)
    /\ now = 2 * played + 1

\* supabase_utils.py 49-51, 78-80: the records of the pages delivered before
\* a request raised; the loop is left and they are returned as the table
FetchedBeforeError(table, pages_ok) ==
    SubSeq(table, 1, Min({Len(table), pages_ok * limit}))

\* a run at its entry; err: a request of the fetch of player_match_stats
\* raises, which fetch_with_deduplication logs
InitRunWith(sc, err) ==
    /\ script = sc /\ pc = "start"
    /\ df_combined_raw = <<>> /\ df_enriched = <<>> /\ df_processed = <<>>
    /\ df_live_raw = <<>> /\ outputs = {}
    /\ log = (IF err THEN {"fetch_error"} ELSE {})
    /\ model = NoModel /\ scaler_data = <<>> /\ df_scaled_input = NoFeatures
    /\ fpc = "idle" /\ all_data = <<>> /\ seen_ids = {} /\ offset = 0
    /\ ScraperIdle
    /\ pages = <<>> /\ fetch_error = err
    /\ final_feature_set = <<>> /\ df_positions = <<>>
    /\ df_pfactors = <<>> /\ df_scaled = <<>>
    /\ training_stats = NoStats /\ X_train = <<>>
    /\ comparison_stats = NoComparison

InitRun(sc) ==
    /\ script = sc /\ pc = "start"
    /\ df_combined_raw = <<>> /\ df_enriched = <<>> /\ df_processed = <<>>
    /\ df_live_raw = <<>> /\ outputs = {} /\ log = {}
    /\ model = NoModel /\ scaler_data = <<>> /\ df_scaled_input = NoFeatures
    /\ fpc = "idle" /\ all_data = <<>> /\ seen_ids = {} /\ offset = 0
    /\ ScraperIdle
    /\ pages = <<>> /\ fetch_error = FALSE
    /\ final_feature_set = <<>> /\ df_positions = <<>>
    /\ df_pfactors = <<>> /\ df_scaled = <<>>
    /\ training_stats = NoStats /\ X_train = <<>>
    /\ comparison_stats = NoComparison

\* the largest target value of a training set: predict(which='prob') of a
\* ZIP model has MaxCount + 1 columns
MaxCount == 2

\* the model files and statistics files a directory can hold
PoissonModels ==
    {NoFile} \cup {File(PoissonResults(c)) :
                     c \in {ZIP_PREDICTOR_COLUMNS, LEGACY_PREDICTOR_COLUMNS,
                            BACKTEST_PREDICTOR_COLUMNS}}
             \cup {File(PoissonResultsWith(c, 0 - 1)) :
                     c \in {ZIP_PREDICTOR_COLUMNS, LEGACY_PREDICTOR_COLUMNS}}
ZipModels ==
    {NoFile, File(ZipResults(TRAINER_PREDICTOR_COLUMNS, TRAINER_PREDICTOR_COLUMNS, MaxCount + 1))}
    \cup {File(ZipResults(ZIP_PREDICTOR_COLUMNS, INFLATION_PREDICTOR_COLUMNS, k)) :
             k \in {1, MaxCount + 1}}
StatsFiles ==
    {NoFile} \cup {File(StatsDict(stems, z)) :
                     stems \in StemSets, z \in AllStems \cup {"none"}}

\* the environment of a run started with MODEL_TYPE unset, the directory
\* holding the files produced for the script
InitDefaultArtifacts(sc) ==
    model_type = "poisson" /\ files = GoodDirectory(sc)

\* The runs of the live predictor (ZIP version) over every store of the
\* family, the runs of the three entry points over a store of which
\* some tables came back empty, and the runs of the two predictors over
\* every artifact directory.
InitPredict ==
    \/ /\ InitRun("zip") /\ InitDefaultArtifacts("zip")
       /\ \E played \in 0..MaxPlayed, future \in 0..MaxFuture, stale \in BOOLEAN,
             prof \in Profiles :
            \E debut2 \in 1..(played + 1) :
               InitStore(played, future, stale, debut2, prof, {})
    \/ /\ \E sc \in {"zip", "legacy", "loader"} : InitRun(sc) /\ InitDefaultArtifacts(sc)
       /\ \E emptied \in SUBSET Tables, prof \in {1, 7, 8}, future \in 0..1 :
               InitStore(MaxPlayed, future, FALSE, 1, prof, emptied)
    \/ /\ \E prof \in {1, 8} : InitStore(MaxPlayed, 1, FALSE, 1, prof, {})
       /\ \E stats \in StatsFiles :
            \/ \E sc \in {"zip", "legacy"}, pm \in PoissonModels :
                  /\ InitRun(sc) /\ model_type = "poisson"
                  /\ files = Directory(pm, NoFile, stats, NoFile)
            \/ \E zm \in ZipModels, zs \in {NoFile, File(ZipStatsDict)} :
                  /\ InitRun("zip") /\ model_type = "zip"
                  /\ files = Directory(NoFile, zm, stats, zs)
    \/ /\ InitRunWith("zip", TRUE) /\ InitDefaultArtifacts("zip")
       /\ \E pages_ok \in 0..FailAfterPages, prof \in {1, 2} :
            /\ fixtures = FixturesOf(MaxPlayed, 1, FALSE)
            /\ player_match_stats =
                  FetchedBeforeError(PlayerStatsOf(MaxPlayed, 1, prof), pages_ok)
            /\ team_shooting_stats = TeamStatsOf(MaxPlayed, prof)
            /\ team_defense_stats = TackleStatsOf(MaxPlayed)
            /\ now = 2 * MaxPlayed + 1

(***************************************************************************)
(* main()  (live_predictor_zip.py 751-790)                                 *)
(***************************************************************************)
\* lines 158, 176, 191: indexing a column of a frame built from no record
\* raises KeyError
ZipSourceMissingIgnoreTeam(fx, hist, team_def) == fx = <<>> \/ hist = <<>>
ZipSourceMissing(fx, hist, team_def) == fx = <<>> \/ hist = <<>> \/ team_def = <<>>

\* line 759: model, scaler_data = load_artifacts()  (496-535)
zip_load_artifacts ==
    /\ script = "zip" /\ pc = "start"
    /\ IF zip_load_artifacts_fails(files, model_type)
       THEN /\ pc' = "exited"
            /\ log' = log \cup {"Model file not found"}
            /\ UNCHANGED <<model, scaler_data>>
       ELSE IF "npxg_MA5" \notin DOMAIN zip_scaler_dict(files, model_type)
       THEN /\ pc' = "exited"
            /\ log' = log \cup {"npxg_MA5 not found in training_stats.json!"}
            /\ UNCHANGED <<model, scaler_data>>
       ELSE /\ model' = files[MODEL_FILE(model_type)].content
            /\ scaler_data' = zip_scaler_dict(files, model_type)
            /\ pc' = "loaded" /\ log' = log
    /\ UNCHANGED <<fetchVars, storeVars, scrapeVars, trainVars, script, df_combined_raw,
                   df_enriched, df_processed, df_live_raw, outputs, files,
                   df_scaled_input>>

\* line 762: df_combined_raw = load_and_merge_raw_data()
zip_load_and_merge_raw_data ==
    /\ script = "zip" /\ pc = "loaded"
    /\ IF ZipSourceMissing(fixtures, player_match_stats, team_shooting_stats)
       THEN /\ pc' = "crashed"
            /\ log' = log \cup {"KeyError"}
            /\ UNCHANGED df_combined_raw
       ELSE LET df == MergedFrame(fixtures, player_match_stats, team_shooting_stats, now)
            IN  /\ df_combined_raw' = df
                /\ IF df = <<>>
                   THEN pc' = "returned" /\ log' = log \cup {"No data loaded from database"}
                   ELSE pc' = "merged" /\ log' = log
    /\ UNCHANGED <<fetchVars, storeVars, scrapeVars, scoreVars, trainVars, script, df_enriched, df_processed,
                   df_live_raw, outputs>>

\* the enrichment run on the merged frame short of its last row
zip_clean_and_enrich_partial ==
    /\ script = "zip" /\ pc = "merged"
    /\ df_enriched' = clean_and_enrich(SubSeq(df_combined_raw, 1, Len(df_combined_raw) - 1))
    /\ pc' = "enriched"
    /\ UNCHANGED <<fetchVars, storeVars, scrapeVars, scoreVars, trainVars, script, df_combined_raw, df_processed,
                   df_live_raw, outputs, log>>

\* line 768
zip_clean_and_enrich_data ==
    /\ script = "zip" /\ pc = "merged"
    /\ df_enriched' = clean_and_enrich(df_combined_raw)
    /\ pc' = "enriched"
    /\ UNCHANGED <<fetchVars, storeVars, scrapeVars, scoreVars, trainVars, script, df_combined_raw, df_processed,
                   df_live_raw, outputs, log>>

\* line 771
zip_calculate_ma5_factors ==
    /\ script = "zip" /\ pc = "enriched"
    /\ df_processed' = calculate_ma5(df_enriched)
    /\ pc' = "processed"
    /\ UNCHANGED <<fetchVars, storeVars, scrapeVars, scoreVars, trainVars, script, df_combined_raw, df_enriched,
                   df_live_raw, outputs, log>>

\* lines 774-778
zip_get_live_gameweek_features ==
    /\ script = "zip" /\ pc = "processed"
    /\ df_live_raw' = get_live_gameweek(df_processed)
    /\ IF df_live_raw' = <<>>
       THEN pc' = "returned" /\ log' = log \cup {"No players qualified for prediction."}
       ELSE pc' = "qualified" /\ log' = log
    /\ UNCHANGED <<fetchVars, storeVars, scrapeVars, scoreVars, trainVars, script, df_combined_raw, df_enriched,
                   df_processed, outputs>>

(***************************************************************************)
(* load_and_merge_raw_data and main  (live_predictor.py, the older script) *)
(***************************************************************************)
\* live_predictor.py line 32
LEGACY_MIN_MATCHES_PLAYED == 5

\* line 130: inner merge of the two team tables on (match_date, team_name)
LegacyTeamDef(shooting, tackles) ==
    LET OneRow(r) ==
          LET hits == Positions(tackles, {j \in 1..Len(tackles) :
                          /\ tackles[j].match_date = r.match_date
                          /\ tackles[j].team_name = r.team_name})
          IN  [k \in 1..Len(hits) |->
                  [match_date |-> r.match_date, team_name |-> r.team_name,
                   sot_conceded |-> r.sot_conceded,
                   tackles_att_3rd |-> tackles[hits[k]].tackles_att_3rd]]
    IN  Concat([ix \in 1..Len(shooting) |-> OneRow(shooting[ix])])

LegacyRow(r, conceded, tackles, mw, st) ==
    [player_id |-> r.player_id, team_name |-> r.team_name,
     sot |-> r.summary_sot, min |-> r.summary_min,
     home_team |-> r.home_team, away_team |-> r.away_team,
     team_side |-> r.team_side, match_datetime |-> r.match_datetime,
     sot_conceded |-> conceded, tackles_att_3rd |-> tackles,
     matchweek |-> mw, status |-> st, synthesized |-> FALSE]

\* lines 134-147: the two left merges
LegacyHistorical(hist, team_def, fx) ==
    LET OneRow(r) ==
          LET d == Positions(team_def, {j \in 1..Len(team_def) :
                       /\ team_def[j].match_date = DateOf(r.match_datetime)
                       /\ team_def[j].team_name = r.team_name})
              f == Positions(fx, {j \in 1..Len(fx) :
                       /\ fx[j].match_date = DateOf(r.match_datetime)
                       /\ fx[j].home_team = r.home_team
                       /\ fx[j].away_team = r.away_team})
              Pair(c, t) ==
                  IF f = <<>> THEN <<LegacyRow(r, c, t, NaN, "nan")>>
                  ELSE [k \in 1..Len(f) |->
                           LegacyRow(r, c, t, fx[f[k]].matchweek, fx[f[k]].status)]
              OneDef(j) == Pair(team_def[j].sot_conceded, team_def[j].tackles_att_3rd)
          IN  IF d = <<>> THEN Pair(NaN, NaN) ELSE Concat([ix \in 1..Len(d) |-> OneDef(d[ix])])
    IN  Concat([ix \in 1..Len(hist) |-> OneRow(hist[ix])])

\* lines 152-157: the distinct (player_id, team_name) pairs of the records of
\* the players with enough history, in order of first appearance
legacy_active_players(hist) ==
    LET enough == {i \in 1..Len(hist) :
                      MatchCount(hist, hist[i].player_id) >= LEGACY_MIN_MATCHES_PLAYED}
        first == {i \in enough : \A j \in 1..(i - 1) :
                      ~(hist[j].player_id = hist[i].player_id
                        /\ hist[j].team_name = hist[i].team_name)}
        rows == SelectSeqBy(hist, first)
    IN  [k \in 1..Len(rows) |->
            [player_id |-> rows[k].player_id, team_name |-> rows[k].team_name]]

\* lines 180-201 and 210-211
LegacySideRows(active, fixture, side, team) ==
    LET side_players == SelectSeqBy(active,
                           {i \in 1..Len(active) : active[i].team_name = team})
    IN  [k \in 1..Len(side_players) |->
            [player_id |-> side_players[k].player_id,
             team_name |-> side_players[k].team_name,
             sot |-> NaN, min |-> NaN,
             home_team |-> fixture.home_team, away_team |-> fixture.away_team,
             team_side |-> side, match_datetime |-> fixture.datetime,
             sot_conceded |-> NaN, tackles_att_3rd |-> NaN,
             matchweek |-> fixture.matchweek, status |-> fixture.status,
             synthesized |-> TRUE]]

LegacyFutureRows(active, future_fx) ==
    LET OneFixture(f) == LegacySideRows(active, f, "home", f.home_team)
                         \o LegacySideRows(active, f, "away", f.away_team)
    IN  Concat([ix \in 1..Len(future_fx) |-> OneFixture(future_fx[ix])])

\* lines 134-219 for non-empty source frames
LegacyMergedFrame(fx_raw, hist, shooting, tackles, t_now) ==
    LET fx == PrepFixtures(fx_raw, t_now)
        df_historical == LegacyHistorical(hist, LegacyTeamDef(shooting, tackles), fx)
        future_fx == df_future_fixtures(fx)
        df_future == LegacyFutureRows(legacy_active_players(hist), future_fx)
    IN  IF future_fx = <<>> \/ df_future = <<>> THEN df_historical
        ELSE StableSort(ByDatetimePlayer, df_historical \o df_future)

\* live_predictor.py 417-425 with load_artifacts (336-344): a missing file
\* raises FileNotFoundError, which main logs before it returns
legacy_load_artifacts ==
    /\ script = "legacy" /\ pc = "start"
    /\ IF ~files[POISSON_MODEL_FILE].exists \/ ~files[TRAINING_STATS_FILE].exists
       THEN /\ pc' = "returned"
            /\ log' = log \cup {"Failed to load model artifacts"}
            /\ UNCHANGED <<model, scaler_data>>
       ELSE /\ model' = files[POISSON_MODEL_FILE].content
            /\ scaler_data' = files[TRAINING_STATS_FILE].content
            /\ pc' = "loaded" /\ log' = log
    /\ UNCHANGED <<fetchVars, storeVars, scrapeVars, trainVars, script, df_combined_raw,
                   df_enriched, df_processed, df_live_raw, outputs, files,
                   df_scaled_input>>

\* lines 428-431 of main with load_and_merge_raw_data (67-219):
\* line 81 raises KeyError on an empty fixtures frame, line 109 returns an
\* empty frame for an empty player table, line 130 raises KeyError when a
\* team table is empty
legacy_load_and_merge_raw_data ==
    /\ script = "legacy" /\ pc = "loaded"
    /\ IF fixtures = <<>>
       THEN pc' = "crashed" /\ log' = log \cup {"KeyError"}
            /\ UNCHANGED df_combined_raw
       ELSE IF player_match_stats = <<>>
       THEN pc' = "returned" /\ log' = log \cup {"No data loaded from database"}
            /\ UNCHANGED df_combined_raw
       ELSE IF team_shooting_stats = <<>> \/ team_defense_stats = <<>>
       THEN pc' = "crashed" /\ log' = log \cup {"KeyError"}
            /\ UNCHANGED df_combined_raw
       ELSE /\ df_combined_raw' = LegacyMergedFrame(fixtures, player_match_stats,
                                     team_shooting_stats, team_defense_stats, now)
            /\ pc' = "merged" /\ log' = log
    /\ UNCHANGED <<fetchVars, storeVars, scrapeVars, scoreVars, trainVars, script, df_enriched, df_processed,
                   df_live_raw, outputs>>

(***************************************************************************)
(* calculate_ma5_factors, get_live_gameweek_features (live_predictor.py)   *)
(***************************************************************************)

\* live_predictor.py 248-254: groupby('opponent_team')[col] and the rolling
\* mean over the rows of the group that precede row i in the frame
LegacyOpponentMA5(df, col, i) ==
    LET same == {k \in 1..Len(df) : opponent_team(df[k]) = opponent_team(df[i])}
        group == Positions(df, same)
        j == Cardinality({k \in same : k <= i})
        x == [k \in 1..Len(group) |-> df[group[k]][col]]
    IN  RollingMean(x, j)

\* live_predictor.py 222-256
legacy_calculate_ma5(df) ==
    [i \in 1..Len(df) |->
        [sot_MA5 |-> PlayerMA5(df, "sot", i),
         min_MA5 |-> PlayerMA5(df, "min", i),
         opponent_team |-> opponent_team(df[i]),
         sot_conceded_MA5 |-> LegacyOpponentMA5(df, "sot_conceded", i),
         tackles_att_3rd_MA5 |-> LegacyOpponentMA5(df, "tackles_att_3rd", i)]
        @@ df[i]]

\* live_predictor.py 258-334: no filter on the position of the player
legacy_get_live_gameweek(df) ==
    LET sched == scheduled_games(df)
        gw == next_gameweek(sched)
        df_live == SelectSeqBy(sched, {i \in 1..Len(sched) :
                       gw # NaN /\ sched[i].matchweek = gw})
        no_nan == SelectSeqBy(df_live, {i \in 1..Len(df_live) :
                       /\ ~IsNaNQ(df_live[i].sot_MA5) /\ ~IsNaNQ(df_live[i].min_MA5)
                       /\ ~IsNaNQ(df_live[i].sot_conceded_MA5)
                       /\ ~IsNaNQ(df_live[i].tackles_att_3rd_MA5)})
        mins == SelectSeqBy(no_nan, {i \in 1..Len(no_nan) :
                       GeQ(no_nan[i].min_MA5, MIN_EXPECTED_MINUTES, 1)})
        sots == SelectSeqBy(mins, {i \in 1..Len(mins) :
                       GeQ(mins[i].sot_MA5, MIN_SOT_MA5_TENTHS, 10)})
    IN  \* line 317: summary_min = min_MA5
        [i \in 1..Len(sots) |-> ("summary_min" :> sots[i].min_MA5) @@ sots[i]]

\* main, line 433
legacy_calculate_ma5_factors ==
    /\ script = "legacy" /\ pc = "merged"
    /\ df_processed' = legacy_calculate_ma5(df_combined_raw)
    /\ pc' = "processed"
    /\ UNCHANGED <<fetchVars, storeVars, scrapeVars, scoreVars, trainVars, script, df_combined_raw, df_enriched,
                   df_live_raw, outputs, log>>

\* main, lines 436-442: an empty report is written when nobody qualifies
legacy_get_live_gameweek_features ==
    /\ script = "legacy" /\ pc = "processed"
    /\ df_live_raw' = legacy_get_live_gameweek(df_processed)
    /\ IF df_live_raw' = <<>>
       THEN /\ pc' = "returned"
            /\ log' = log \cup {"No players qualified for prediction. Creating empty report."}
            /\ outputs' = outputs \cup {PREDICTION_OUTPUT}
            /\ files' = [files EXCEPT ![PREDICTION_OUTPUT] = File(<<>>)]
       ELSE pc' = "qualified" /\ log' = log /\ outputs' = outputs /\ files' = files
    /\ UNCHANGED <<fetchVars, storeVars, scrapeVars, trainVars, script, df_combined_raw,
                   df_enriched, df_processed, model, scaler_data, df_scaled_input>>

(***************************************************************************)
(* scale_live_data  (live_predictor_zip.py 538-593, live_predictor.py      *)
(* 346-377)                                                                *)
(***************************************************************************)
\* col.replace('_scaled', '')
StemOf(col) ==
    CASE col = "sot_conceded_MA5_scaled" -> "sot_conceded_MA5"
      [] col = "sot_MA5_scaled" -> "sot_MA5"
      [] col = "npxg_MA5_scaled" -> "npxg_MA5"
      [] col = "tackles_att_3rd_MA5_scaled" -> "tackles_att_3rd_MA5"
      [] col = "min_MA5_scaled" -> "min_MA5"
      [] OTHER -> col

\* the same scaling without the test of sigma
scale_value_unguarded(x, mean, std2) == [dev |-> SubQ(x, mean), var |-> std2]

\* live_predictor_zip.py 559-563, live_predictor.py 366-372: the scaled
\* value of x under the statistics (mean, std); a std of 0 gives 0
scale_value(x, mean, std2) ==
    IF std2 = Q(0, 1) THEN ZeroScaled ELSE [dev |-> SubQ(x, mean), var |-> std2]

\* the number a scaled value stands for: dev / sqrt(var); std2 is the
\* square of a rational
Isqrt(n) == CHOOSE r \in 0..n : r * r = n
SqrtQ(q) == IF IsNaNQ(q) THEN NaNQ ELSE [num |-> Isqrt(q.num), den |-> Isqrt(q.den)]
ScaledQ(v) ==
    IF IsNaNQ(v.dev) \/ IsNaNQ(v.var) THEN NaNQ
    ELSE Q(v.dev.num * SqrtQ(v.var).den, v.dev.den * SqrtQ(v.var).num)

\* the columns of a frame that holds rows
ColumnsOf(df) == DOMAIN df[1]

\* the columns a frame of features has after the scaling loop
RANGE(s) == {s[k] : k \in 1..Len(s)}
ScaledColumnsMade(stems, sd) == {c \in stems : StemOf(c) \in DOMAIN sd}

\* live_predictor_zip.py 546-550: the predictor columns that are scaled
ZipScaledColumns ==
    {c \in RANGE(ZIP_PREDICTOR_COLUMNS) :
        c \notin {"summary_min", "is_forward", "is_defender", "is_home"}}
\* live_predictor.py 349
LegacyScaledColumns == {c \in RANGE(LEGACY_PREDICTOR_COLUMNS) : c # "summary_min"}

\* one row of final_features: const, then the predictor columns; a 0/1
\* column and summary_min are carried as they are
FeatureRow(r, predictors, scaled, sd) ==
    [c \in RANGE(add_constant(predictors)) |->
        IF c = "const" THEN Q(1, 1)
        ELSE IF c \in scaled
        THEN IF StemOf(c) \in DOMAIN r
             THEN scale_value(r[StemOf(c)], sd[StemOf(c)].mean, sd[StemOf(c)].std2)
             ELSE ZeroScaled
        ELSE IF c = "summary_min" THEN r[c]
        ELSE Q(r[c], 1)]

FeaturesOf(df, predictors, scaled, sd) ==
    [columns |-> add_constant(predictors),
     rows |-> [i \in 1..Len(df) |-> FeatureRow(df[i], predictors, scaled, sd)]]

\* live_predictor_zip.py 538-593.  Line 560 reads the raw column only when
\* sigma is not 0 (KeyError when the column is absent); lines 570-573 read
\* the unscaled columns; lines 576-579 raise ValueError when a predictor
\* column has not been made.
zip_scale_error(df, sd) ==
    LET made == ScaledColumnsMade(ZipScaledColumns, sd)
    IN  IF \E c \in made : sd[StemOf(c)].std2 # Q(0, 1) /\ StemOf(c) \notin ColumnsOf(df)
        THEN "KeyError"
        ELSE IF ~({"is_forward", "is_defender", "is_home", "summary_min"}
                    \subseteq ColumnsOf(df))
        THEN "KeyError"
        ELSE IF ~(RANGE(ZIP_PREDICTOR_COLUMNS) \subseteq (ColumnsOf(df) \cup made))
        THEN "ValueError"
        ELSE "none"
zip_scale_live(df, sd) == FeaturesOf(df, ZIP_PREDICTOR_COLUMNS, ZipScaledColumns, sd)

\* live_predictor.py 346-377.  Lines 352-355 return None when a raw column
\* is absent; line 375 raises KeyError when a scaled column has not been
\* made because its statistics are absent (lines 362-364).
legacy_scale_error(df, sd) ==
    IF \E c \in LegacyScaledColumns : StemOf(c) \notin ColumnsOf(df)
    THEN "None"
    ELSE IF ~(RANGE(LEGACY_PREDICTOR_COLUMNS)
                \subseteq (ColumnsOf(df) \cup ScaledColumnsMade(LegacyScaledColumns, sd)))
    THEN "KeyError"
    ELSE "none"
legacy_scale_live(df, sd) ==
    FeaturesOf(df, LEGACY_PREDICTOR_COLUMNS, LegacyScaledColumns, sd)

\* live_predictor_zip.py main, line 783
zip_scale_live_data ==
    /\ script = "zip" /\ pc = "qualified"
    /\ LET err == zip_scale_error(df_live_raw, scaler_data)
       IN  IF err # "none"
           THEN /\ pc' = "crashed" /\ log' = log \cup {err}
                /\ UNCHANGED df_scaled_input
           ELSE /\ df_scaled_input' = zip_scale_live(df_live_raw, scaler_data)
                /\ pc' = "scaled" /\ log' = log
    /\ UNCHANGED <<fetchVars, storeVars, scrapeVars, trainVars, script, df_combined_raw,
                   df_enriched, df_processed, df_live_raw, outputs, files, model,
                   scaler_data>>

\* live_predictor.py main, lines 444-448
legacy_scale_live_data ==
    /\ script = "legacy" /\ pc = "qualified"
    /\ LET err == legacy_scale_error(df_live_raw, scaler_data)
       IN  IF err = "None"
           THEN /\ pc' = "returned"
                /\ log' = log \cup {"Scaling failed. Aborting prediction."}
                /\ UNCHANGED df_scaled_input
           ELSE IF err # "none"
           THEN /\ pc' = "crashed" /\ log' = log \cup {err}
                /\ UNCHANGED df_scaled_input
           ELSE /\ df_scaled_input' = legacy_scale_live(df_live_raw, scaler_data)
                /\ pc' = "scaled" /\ log' = log
    /\ UNCHANGED <<fetchVars, storeVars, scrapeVars, trainVars, script, df_combined_raw,
                   df_enriched, df_processed, df_live_raw, outputs, files, model,
                   scaler_data>>

(***************************************************************************)
(* run_predictions  (live_predictor_zip.py 596-748, live_predictor.py      *)
(* 379-408)                                                                *)
(*                                                                         *)
(* exp() is not computed.  The fitted distribution of a row is kept by     *)
(* its linear predictors (eta of the count part, eta_infl of the inflation *)
(* part), E_SOT is the mean of that distribution, and a probability is     *)
(* kept as the term 1 - sum of P(k) over a set of counts.                  *)
(***************************************************************************)
\* the number in a cell of the feature frame
AsQ(c, v) == IF StemOf(c) # c THEN ScaledQ(v) ELSE v

\* np.dot(exog, params): the k-th coefficient meets the k-th column
LinearPredictor(params, cols, row) ==
    SumQ([k \in 1..Len(params) |-> MulQ(Q(params[k], 1), AsQ(cols[k], row[cols[k]]))])

\* the shapes of exog and params are not aligned: predict raises ValueError
predict_fails(m, X, mt) ==
    \/ Len(X.columns) # Len(m.params)
    \/ mt = "zip" /\ Len(add_constant(INFLATION_PREDICTOR_COLUMNS)) # Len(m.params_infl)

NoInflation == NaNQ
\* the distribution model.predict fits to row i of X
RowDist(m, X, mt, i) ==
    [kind |-> m.kind,
     eta |-> LinearPredictor(m.params, X.columns, X.rows[i]),
     eta_infl |-> IF mt = "zip"
                  THEN LinearPredictor(m.params_infl,
                          add_constant(INFLATION_PREDICTOR_COLUMNS), X.rows[i])
                  ELSE NoInflation]

\* 1 - sum of P(k | d) over the counts k of `counts`
OneMinus(d, counts) == [dist |-> d, minus |-> counts]
\* P(k | d)
Pmf(d, k) == [dist |-> d, count |-> k]

\* live_predictor_zip.py 622-631: predict(which='prob') is the N x n_counts
\* matrix of P(k | row), k = 0 .. n_counts - 1; ravel() lays it out row by
\* row and the first N entries are kept, so entry i holds
\* P((i - 1) % n_counts | row (i - 1) \div n_counts + 1)
RaveledProb(m, X, mt, i) ==
    OneMinus(RowDist(m, X, mt, ((i - 1) \div m.n_counts) + 1), {(i - 1) % m.n_counts})

\* the columns the three scoring branches add to row i of df_raw
ZipColumns(m, X, mt, i) ==
    [E_SOT |-> RowDist(m, X, mt, i),
     P_SOT_1_Plus |-> RaveledProb(m, X, mt, i),
     P_Never_Shooter |-> RowDist(m, X, mt, i).eta_infl]
PoissonColumns(m, X, mt, i) ==
    [E_SOT |-> RowDist(m, X, mt, i),
     P_SOT_0 |-> Pmf(RowDist(m, X, mt, i), 0),
     P_SOT_1_Plus |-> OneMinus(RowDist(m, X, mt, i), {0}),
     P_SOT_2_Plus |-> OneMinus(RowDist(m, X, mt, i), 0..1),
     P_SOT_3_Plus |-> OneMinus(RowDist(m, X, mt, i), 0..2),
     P_SOT_4_Plus |-> OneMinus(RowDist(m, X, mt, i), 0..3)]
\* live_predictor.py 387-388: 1 - exp(-E_SOT) is 1 - P(0) of a Poisson
LegacyColumns(m, X, i) ==
    [E_SOT |-> RowDist(m, X, "poisson", i),
     P_SOT_1_Plus |-> OneMinus(RowDist(m, X, "poisson", i), {0})]

\* the columns of df_raw that go to the report, renamed
ZipReportColumns(r) ==
    [player_id |-> r.player_id, team |-> r.team_name, opponent |-> r.opponent_team,
     expected_minutes |-> r.min_MA5, recent_sot_avg |-> r.sot_MA5,
     recent_npxg_avg |-> r.npxg_MA5, match_datetime |-> r.match_datetime]
LegacyReportColumns(r) ==
    [player_id |-> r.player_id, team |-> r.team_name, opponent |-> r.opponent_team,
     expected_minutes |-> r.min_MA5, recent_sot_avg |-> r.sot_MA5,
     match_datetime |-> r.match_datetime]

\* E_SOT of a sorts before E_SOT of b under ascending=False; NaN goes last.
\* The inflation parts of the rows of one report are equal in the fits
\* considered, so E_SOT is ordered as eta.
GreaterE(a, b) ==
    /\ ~IsNaNQ(a.E_SOT.eta)
    /\ \/ IsNaNQ(b.E_SOT.eta)
       \/ a.E_SOT.eta.num * b.E_SOT.eta.den > b.E_SOT.eta.num * a.E_SOT.eta.den

RECURSIVE InsertDescending(_, _)
InsertDescending(x, s) ==
    IF s = <<>> THEN <<x>>
    ELSE IF GreaterE(x, Head(s)) THEN <<x>> \o s
    ELSE <<Head(s)>> \o InsertDescending(x, Tail(s))

\* the report left in the order of df_raw
Unsorted(s) == s

RECURSIVE sort_values_descending(_)
\* sort_values(by='E_SOT', ascending=False)
sort_values_descending(s) ==
    IF s = <<>> THEN <<>>
    ELSE InsertDescending(s[Len(s)], sort_values_descending(SubSeq(s, 1, Len(s) - 1)))

\* live_predictor_zip.py 596-700: the rows of final_report
zip_report(m, X, df_raw, mt) ==
    sort_values_descending(
        [i \in 1..Len(df_raw) |->
            (IF mt = "zip" THEN ZipColumns(m, X, mt, i) ELSE PoissonColumns(m, X, mt, i))
            @@ ZipReportColumns(df_raw[i])])

\* live_predictor.py 379-401
legacy_report(m, X, df_raw) ==
    sort_values_descending(
        [i \in 1..Len(df_raw) |-> LegacyColumns(m, X, i) @@ LegacyReportColumns(df_raw[i])])

\* live_predictor_zip.py main, line 786, with to_csv at line 700
zip_run_predictions ==
    /\ script = "zip" /\ pc = "scaled"
    /\ IF predict_fails(model, df_scaled_input, model_type)
       THEN /\ pc' = "crashed" /\ log' = log \cup {"ValueError"}
            /\ UNCHANGED <<files, outputs>>
       ELSE /\ files' = [files EXCEPT ![PREDICTION_OUTPUT] =
                            File(zip_report(model, df_scaled_input, df_live_raw, model_type))]
            /\ outputs' = outputs \cup {PREDICTION_OUTPUT}
            /\ pc' = "predicted" /\ log' = log
    /\ UNCHANGED <<fetchVars, storeVars, scrapeVars, trainVars, script, df_combined_raw,
                   df_enriched, df_processed, df_live_raw, model, scaler_data,
                   df_scaled_input>>

\* live_predictor.py main, line 451, with to_csv at line 403
legacy_run_predictions ==
    /\ script = "legacy" /\ pc = "scaled"
    /\ IF predict_fails(model, df_scaled_input, "poisson")
       THEN /\ pc' = "crashed" /\ log' = log \cup {"ValueError"}
            /\ UNCHANGED <<files, outputs>>
       ELSE /\ files' = [files EXCEPT ![PREDICTION_OUTPUT] =
                            File(legacy_report(model, df_scaled_input, df_live_raw))]
            /\ outputs' = outputs \cup {PREDICTION_OUTPUT}
            /\ pc' = "predicted" /\ log' = log
    /\ UNCHANGED <<fetchVars, storeVars, scrapeVars, trainVars, script, df_combined_raw,
                   df_enriched, df_processed, df_live_raw, model, scaler_data,
                   df_scaled_input>>

(***************************************************************************)
(* load_data_for_backtest and its caller  (data_loader.py 52-147)          *)
(***************************************************************************)
\* lines 64, 100, 112: which of the two frames come back empty
LoaderPlayerFrame(hist) == hist
LoaderTeamFrame(hist, shooting, tackles) ==
    IF hist = <<>> \/ shooting = <<>> \/ tackles = <<>> THEN <<>>
    ELSE LegacyTeamDef(shooting, tackles)

\* lines 128-143: the files are saved only when both frames hold rows
loader_main ==
    /\ script = "loader" /\ pc = "start"
    /\ LET df_player == LoaderPlayerFrame(player_match_stats)
           df_team_def == LoaderTeamFrame(player_match_stats, team_shooting_stats,
                                          team_defense_stats)
       IN  IF df_player # <<>> /\ df_team_def # <<>>
           THEN /\ outputs' = {"player_data_raw.parquet", "team_def_data_raw.parquet"}
                /\ pc' = "done" /\ log' = log
           ELSE /\ outputs' = outputs
                /\ pc' = "returned"
                /\ log' = log \cup {"No valid data loaded. Skipping file save."}
    /\ UNCHANGED <<fetchVars, storeVars, scrapeVars, scoreVars, trainVars, script, df_combined_raw, df_enriched,
                   df_processed, df_live_raw>>

(***************************************************************************)
(* The training scripts: player_factor_engineer.py, feature_scaling.py,    *)
(* backtest_model.py.  A scaled value (x - mean) / std is kept as the pair *)
(* of its deviation x - mean and the variance std^2.                       *)
(***************************************************************************)

\* player_factor_engineer.py 107-109: the mean of all the player's shots
player_avg_sot(df, p) ==
    MeanOf(SelectSeqBy([i \in 1..Len(df) |-> df[i].sot],
                       {i \in 1..Len(df) : df[i].player_id = p}))

\* player_factor_engineer.py 119-138: forwards, midfielders and the
\* defenders whose average reaches ATTACKING_DEFENDER_THRESHOLD
TrainingHybridKeeps(df, i) ==
    \/ position_group(df[i].summary_positions) \in {"Forward", "Midfielder"}
    \/ /\ position_group(df[i].summary_positions) = "Defender"
       /\ GeQ(player_avg_sot(df, df[i].player_id), ATTACKING_DEFENDER_TENTHS, 10)

\* player_factor_engineer.py 75-177
process_position_data(df) ==
    LET kept == SelectSeqBy(df, {i \in 1..Len(df) : TrainingHybridKeeps(df, i)})
    IN  [i \in 1..Len(kept) |->
            [position_group |-> position_group(kept[i].summary_positions),
             player_avg_sot |-> player_avg_sot(df, kept[i].player_id),
             is_forward |-> IF position_group(kept[i].summary_positions) = "Forward"
                            THEN 1 ELSE 0,
             is_defender |-> IF position_group(kept[i].summary_positions) = "Defender"
                             THEN 1 ELSE 0]
            @@ kept[i]]

ByPlayerDatetime == <<"player_id", "match_datetime">>

\* player_factor_engineer.py 188-205: sort by (player_id, match_datetime),
\* then the rolling mean of every metric the frame carries
calculate_player_ma5_factors(df) ==
    LET sorted == StableSort(ByPlayerDatetime, df)
    IN  [i \in 1..Len(sorted) |->
            [player_id |-> sorted[i].player_id,
             match_datetime |-> sorted[i].match_datetime,
             sot |-> sorted[i].sot, min |-> sorted[i].min,
             is_forward |-> sorted[i].is_forward,
             is_defender |-> sorted[i].is_defender,
             sot_conceded_MA5 |-> sorted[i].sot_conceded_MA5,
             sot_MA5 |-> PlayerMA5(sorted, "sot", i),
             min_MA5 |-> PlayerMA5(sorted, "min", i)]]

\* DataFrame.mean() of a column of factors: NaN is skipped
ColumnMean(df, col) ==
    LET vals == SelectSeqBy([i \in 1..Len(df) |-> df[i][col]],
                            {i \in 1..Len(df) : ~IsNaNQ(df[i][col])})
    IN  IF vals = <<>> THEN NaNQ
        ELSE LET t == SumQ(vals) IN Q(t.num, t.den * Len(vals))

\* feature_scaling.py 134: df_temp = df[...].fillna(df[...].mean())
FilledColumn(df, col) ==
    [i \in 1..Len(df) |-> IF IsNaNQ(df[i][col]) THEN ColumnMean(df, col)
                          ELSE df[i][col]]

\* StandardScaler.fit on a column: mean_, var_ (population variance) and
\* scale_ = sqrt(var_) with a zero replaced by 1.0, kept as its square std2
ScalerStats(x) ==
    LET n == Len(x)
        total == SumQ(x)
        mean == Q(total.num, total.den * n)
        sq == SumQ([i \in 1..n |-> MulQ(SubQ(x[i], mean), SubQ(x[i], mean))])
        var == Q(sq.num, sq.den * n)
    IN  IF \E i \in 1..n : IsNaNQ(x[i])
        THEN [mean |-> NaNQ, var |-> NaNQ, std2 |-> NaNQ]
        ELSE [mean |-> mean, var |-> var,
              std2 |-> IF var = Q(0, 1) THEN Q(1, 1) ELSE var]

\* the scaled column with the mean-filled values left in place
KeepFilled(orig, scaled) == scaled

\* feature_scaling.py 135-141: the scaled column; line 141 puts NaN back
\* where the original value is NaN
ReapplyNaN(orig, scaled) == IF IsNaNQ(orig) THEN NaNScaled ELSE scaled

ScaledColumn(df, col) ==
    LET x == FilledColumn(df, col)
        st == ScalerStats(x)
    IN  [i \in 1..Len(df) |->
            ReapplyNaN(df[i][col], [dev |-> SubQ(x[i], st.mean), var |-> st.std2])]

\* feature_scaling.py 118-157, after add_summary_min (line 302)
standardize_features(df) ==
    [i \in 1..Len(df) |->
        [player_id |-> df[i].player_id, match_datetime |-> df[i].match_datetime,
         sot |-> df[i].sot, min |-> df[i].min, summary_min |-> df[i].min,
         is_forward |-> df[i].is_forward, is_defender |-> df[i].is_defender,
         sot_MA5_scaled |-> ScaledColumn(df, "sot_MA5")[i],
         sot_conceded_MA5_scaled |-> ScaledColumn(df, "sot_conceded_MA5")[i]]]

\* feature_scaling.py 144-153: 'mean' is scaler.mean_, 'std' is scaler.scale_
StatsEntry(st) == [mean |-> st.mean, std2 |-> st.std2]
StatsOf(df) ==
    [sot_MA5 |-> StatsEntry(ScalerStats(FilledColumn(df, "sot_MA5"))),
     sot_conceded_MA5 |-> StatsEntry(ScalerStats(FilledColumn(df, "sot_conceded_MA5")))]

\* backtest_model.py 53: dropna(subset=PREDICTOR_COLUMNS + [TARGET_COLUMN])
prepare_features(df) ==
    SelectSeqBy(df, {i \in 1..Len(df) :
        /\ ~IsNaNQ(df[i].sot_conceded_MA5_scaled.dev)
        /\ ~IsNaNQ(df[i].sot_MA5_scaled.dev)
        /\ ~IsNaN(df[i].summary_min)
        /\ ~IsNaN(df[i].sot)})

\* the frames the training scripts are run on: up to MaxTrainRows matches
\* of two players, any statistic or opponent factor possibly missing
MaxTrainRows == 4

TrainRow(j, sot, has_opp) ==
    [player_id |-> 1 + (j % 2), match_datetime |-> 2 * j,
     sot |-> sot, min |-> IF sot = NaN THEN NaN ELSE 30 * (1 + (j % 3)),
     summary_positions |-> IF j % 2 = 1 THEN <<"FW">> ELSE <<"DF", "MF">>,
     sot_conceded_MA5 |-> IF has_opp THEN Q(j, 2) ELSE NaNQ]

InitTrain ==
    /\ script = "train" /\ pc = "start"
    /\ \E n \in 1..MaxTrainRows, newest_first \in BOOLEAN :
         \E sots \in [1..n -> {NaN, 0, 2}], opps \in [1..n -> BOOLEAN] :
            final_feature_set =
               [j \in 1..n |-> LET m == IF newest_first THEN n + 1 - j ELSE j
                               IN  TrainRow(m, sots[m], opps[m])]
    /\ df_positions = <<>>
    /\ df_pfactors = <<>> /\ df_scaled = <<>> /\ training_stats = NoStats
    /\ X_train = <<>> /\ comparison_stats = NoComparison
    /\ fixtures = <<>> /\ player_match_stats = <<>> /\ team_shooting_stats = <<>>
    /\ team_defense_stats = <<>> /\ now = 0
    /\ df_combined_raw = <<>> /\ df_enriched = <<>> /\ df_processed = <<>>
    /\ df_live_raw = <<>> /\ outputs = {} /\ log = {}
    /\ model_type = "poisson" /\ files = Directory(NoFile, NoFile, NoFile, NoFile)
    /\ model = NoModel /\ scaler_data = <<>> /\ df_scaled_input = NoFeatures
    /\ fpc = "idle" /\ all_data = <<>> /\ seen_ids = {} /\ offset = 0
    /\ ScraperIdle
    /\ pages = <<>> /\ fetch_error = FALSE

\* player_factor_engineer.py main, line 349
train_process_position_data ==
    /\ script = "train" /\ pc = "start"
    /\ df_positions' = process_position_data(final_feature_set)
    /\ pc' = "positions"
    /\ UNCHANGED <<fetchVars, storeVars, scrapeVars, scoreVars, script, df_combined_raw, df_enriched,
                   df_processed, df_live_raw, outputs, log,
                   final_feature_set, df_pfactors, df_scaled, training_stats, X_train,
                   comparison_stats>>

\* player_factor_engineer.py main, line 352
train_calculate_player_ma5_factors ==
    /\ script = "train" /\ pc = "positions"
    /\ df_pfactors' = calculate_player_ma5_factors(df_positions)
    /\ pc' = "pfactors"
    /\ UNCHANGED <<fetchVars, storeVars, scrapeVars, scoreVars, script, df_combined_raw, df_enriched,
                   df_processed, df_live_raw, outputs, log,
                   final_feature_set, df_positions, df_scaled, training_stats, X_train,
                   comparison_stats>>

\* feature_scaling.py main, lines 302-305
train_standardize_features ==
    /\ script = "train" /\ pc = "pfactors"
    /\ df_scaled' = standardize_features(df_pfactors)
    /\ training_stats' = StatsOf(df_pfactors)
    /\ outputs' = outputs \cup {"training_stats.json"}
    /\ pc' = "scaled"
    /\ UNCHANGED <<fetchVars, storeVars, scrapeVars, scoreVars, script, df_combined_raw, df_enriched,
                   df_processed, df_live_raw, log,
                   final_feature_set, df_positions, df_pfactors, X_train,
                   comparison_stats>>

\* backtest_model.py prepare_features (42-72)
train_prepare_features ==
    /\ script = "train" /\ pc = "scaled"
    /\ X_train' = prepare_features(df_scaled)
    /\ pc' = "prepared"
    /\ UNCHANGED <<fetchVars, storeVars, scrapeVars, scoreVars, script, df_combined_raw, df_enriched,
                   df_processed, df_live_raw, outputs, log,
                   final_feature_set, df_positions, df_pfactors, df_scaled,
                   training_stats, comparison_stats>>

(***************************************************************************)
(* zip_model_trainer.py: main (335-372)                                    *)
(***************************************************************************)
\* the largest AIC of a fitted model
MaxAic == 12

\* lines 225-238: the recommendation logged for the two AIC values
Recommendation(stats) ==
    IF ~stats.poisson_fitted THEN "ZIP MODEL TRAINED (no comparison available)"
    ELSE IF stats.poisson_aic - stats.zip_aic > 10 THEN "DEPLOY ZIP MODEL"
    ELSE IF stats.poisson_aic - stats.zip_aic > 2 THEN "MARGINAL IMPROVEMENT"
    ELSE "KEEP POISSON"

\* the runs of the trainer: the directory is empty or holds the files of an
\* earlier training; MODEL_TYPE is the setting the predictor will be run with
InitTrainer ==
    /\ script = "trainer" /\ pc = "start"
    /\ model_type \in {"poisson", "zip"}
    /\ files \in {Directory(NoFile, NoFile, NoFile, NoFile), GoodDirectory("zip")}
    /\ comparison_stats = NoComparison
    /\ final_feature_set = <<>> /\ df_positions = <<>>
    /\ df_pfactors = <<>> /\ df_scaled = <<>> /\ training_stats = NoStats
    /\ X_train = <<>>
    /\ fixtures = <<>> /\ player_match_stats = <<>> /\ team_shooting_stats = <<>>
    /\ team_defense_stats = <<>> /\ now = 0
    /\ df_combined_raw = <<>> /\ df_enriched = <<>> /\ df_processed = <<>>
    /\ df_live_raw = <<>> /\ outputs = {} /\ log = {}
    /\ model = NoModel /\ scaler_data = <<>> /\ df_scaled_input = NoFeatures
    /\ fpc = "idle" /\ all_data = <<>> /\ seen_ids = {} /\ offset = 0
    /\ ScraperIdle
    /\ pages = <<>> /\ fetch_error = FALSE

\* main, lines 347-350: train_zip_model (132-161) exits when the fit raises,
\* train_standard_poisson (164-180) returns None when its fit raises.
\* fit(method='bfgs', maxiter=1000) raises nothing when the optimizer stops
\* unconverged: it warns and returns the results of the last iterate with
\* mle_retvals['converged'] False
trainer_train_models ==
    /\ script = "trainer" /\ pc = "start"
    /\ \/ /\ pc' = "exited" /\ log' = log \cup {"Training failed"}
          /\ UNCHANGED comparison_stats
       \/ /\ \E zip_aic \in 0..MaxAic, zip_converged \in BOOLEAN,
                poisson_fitted \in BOOLEAN :
               \E poisson_aic \in IF poisson_fitted THEN 0..MaxAic ELSE {0} :
                  comparison_stats' = [zip_aic |-> zip_aic,
                                       zip_converged |-> zip_converged,
                                       poisson_fitted |-> poisson_fitted,
                                       poisson_aic |-> poisson_aic]
          /\ pc' = "trained" /\ log' = log
    /\ UNCHANGED <<fetchVars, storeVars, scrapeVars, scoreVars, script, df_combined_raw,
                   df_enriched, df_processed, df_live_raw, outputs,
                   final_feature_set, df_positions, df_pfactors, df_scaled,
                   training_stats, X_train>>

\* main, line 354: evaluate_models (183-244) logs the recommendation
trainer_evaluate_models ==
    /\ script = "trainer" /\ pc = "trained"
    /\ log' = log \cup {Recommendation(comparison_stats)}
    /\ pc' = "evaluated"
    /\ UNCHANGED <<fetchVars, storeVars, scrapeVars, scoreVars, trainVars, script, df_combined_raw,
                   df_enriched, df_processed, df_live_raw, outputs>>

\* main, line 360: save_model_and_stats (298-332) writes the ZIP model and
\* its statistics whatever the comparison gave
trainer_save_model_and_stats ==
    /\ script = "trainer" /\ pc = "evaluated"
    /\ files' = [files EXCEPT
          ![ZIP_MODEL_FILE] = File(ZipResults(TRAINER_PREDICTOR_COLUMNS,
                                              TRAINER_PREDICTOR_COLUMNS, MaxCount + 1)),
          ![ZIP_STATS_FILE] = File(ZipStatsOf(comparison_stats.zip_aic))]
    /\ outputs' = outputs \cup {ZIP_MODEL_FILE, ZIP_STATS_FILE}
    /\ pc' = "saved"
    /\ UNCHANGED <<fetchVars, storeVars, scrapeVars, trainVars, script, df_combined_raw,
                   df_enriched, df_processed, df_live_raw, log, model, scaler_data,
                   df_scaled_input>>

Init == InitPredict \/ InitTrain \/ InitTrainer

Next ==
    \/ zip_load_artifacts
    \/ legacy_load_artifacts
    \/ zip_scale_live_data
    \/ legacy_scale_live_data
    \/ zip_run_predictions
    \/ legacy_run_predictions
    \/ train_process_position_data
    \/ train_calculate_player_ma5_factors
    \/ train_standardize_features
    \/ train_prepare_features
    \/ trainer_train_models
    \/ trainer_evaluate_models
    \/ trainer_save_model_and_stats
    \/ zip_load_and_merge_raw_data
    \/ zip_clean_and_enrich_data
    \/ zip_calculate_ma5_factors
    \/ zip_get_live_gameweek_features
    \/ legacy_load_and_merge_raw_data
    \/ legacy_calculate_ma5_factors
    \/ legacy_get_live_gameweek_features
    \/ loader_main

Spec == Init /\ [][Next]_vars

(***************************************************************************)
(* scrapeMatchLog.py: FBRAPIScraper                                        *)
(***************************************************************************)
\* Python's None
None == "None"

\* A match URL, by what the two checks read of it: whether it starts with
\* 'https://fbref.com/' and the 8-character identifier after '/matches/'
\* (None when the regular expression does not match).
Url(fbref, match_id) == [fbref |-> fbref, match_id |-> match_id]
NoUrl == Url(FALSE, None)       \* a fixture without matchurl

\* the matches of the store and their identifiers
MaxMatches == 2
MatchIds == [n \in 1..MaxMatches |-> ToString(n)]

\* the number of players the FBR API holds for a match
RosterSize(match_id) == IF match_id = MatchIds[1] THEN 3 ELSE 1

\* lines 141-152
extract_match_id_from_url(url) ==
    IF url = NoUrl THEN None ELSE url.match_id

\* lines 154-158
is_valid_fbref_match_url(url) ==
    IF url = NoUrl \/ ~url.fbref THEN FALSE
    ELSE extract_match_id_from_url(url) # None

\* lines 170-189: the value of get_match_players_stats for a response of the
\* API: None on an HTTP error or any exception, else data.get('data', []).
\* The caller only tests the value for truth (line 310), so None and the
\* empty list are both the empty list here.
get_match_players_stats(match_id, response) ==
    CASE response = "error" -> <<>>
      [] response = "empty" -> <<>>
      [] OTHER -> [n \in 1..RosterSize(match_id) |-> [player_id |-> n]]

\* lines 191-230: one record per player entry; None, here the empty frame,
\* when there is none (the caller tests `df is not None and not df.empty`)
parse_match_data(match_data, match_url, fixture_id) ==
    [n \in 1..Len(match_data) |->
        [fixture_id |-> fixture_id, match_url |-> match_url,
         player_id |-> match_data[n].player_id]]

\* line 241 (100 in the code)
batch_size == 2

\* the number of insert requests save_to_supabase sends for a frame
Batches(df) == (Len(df) + batch_size - 1) \div batch_size

\* lines 232-248: the table after save_to_supabase(df) when the insert of
\* batch fail_at raises (0: none raises); the batches before it are stored,
\* the exception is printed and the function returns normally
save_to_supabase(table, df, fail_at) ==
    IF fail_at = 0 THEN table \o df
    ELSE table \o SubSeq(df, 1, (fail_at - 1) * batch_size)

\* lines 160-168: scraped_matches after mark_as_scraped(match_url); an
\* exception of the insert is printed and the function returns normally
mark_as_scraped(table, match_url, inserted) ==
    IF inserted THEN Append(table, match_url) ELSE table

\* the fixtures tables of the scraper: n fixtures, each with a valid URL, a
\* URL of another site, a URL without match identifier, or no URL
FixtureUrls(n) ==
    {Url(TRUE, MatchIds[n]), Url(FALSE, MatchIds[n]), Url(TRUE, None), NoUrl}
ScrapeFixtures ==
    UNION {{[i \in 1..n |-> [id |-> i, matchurl |-> u[i]]] :
               u \in {f \in [1..n -> UNION {FixtureUrls(k) : k \in 1..n}] :
                         \A i \in 1..n : f[i] \in FixtureUrls(i)}} :
           n \in 0..MaxMatches}

\* the pipelines and the training scripts do not run
PipelinesIdle ==
    /\ team_shooting_stats = <<>> /\ team_defense_stats = <<>> /\ now = 0
    /\ fpc = "idle" /\ all_data = <<>> /\ seen_ids = {} /\ offset = 0
    /\ pages = <<>> /\ fetch_error = FALSE
    /\ df_combined_raw = <<>> /\ df_enriched = <<>> /\ df_processed = <<>>
    /\ df_live_raw = <<>> /\ outputs = {} /\ log = {}
    /\ model_type = "poisson" /\ files = GoodDirectory("zip")
    /\ model = NoModel /\ scaler_data = <<>> /\ df_scaled_input = NoFeatures
    /\ final_feature_set = <<>> /\ df_positions = <<>>
    /\ df_pfactors = <<>> /\ df_scaled = <<>>
    /\ training_stats = NoStats /\ X_train = <<>>
    /\ comparison_stats = NoComparison

\* the first run of scrapeMatchLog.py on a store without scraped matches
InitMatchLog ==
    /\ PipelinesIdle
    /\ script = "matchlog" /\ pc = "start"
    /\ fixtures \in ScrapeFixtures
    /\ player_match_stats = <<>>
    /\ scraped_matches = <<>> /\ to_scrape = <<>> /\ requests = <<>>
    /\ attempt = 0 /\ clock = 0 /\ result = Running
    /\ max_retries = 0 /\ delay = 0

\* the requests of all runs together
MaxRequests == 4

\* the set of elements of a list
ElementsOf(s) == {s[i] : i \in 1..Len(s)}

\* lines 252-295: steps 1 to 3 of process_all_matches; a query that raises
\* is caught at line 333 and ends the run
process_all_matches_plan ==
    /\ script = "matchlog" /\ pc = "start"
    /\ \E raised \in BOOLEAN :
         LET all_fixtures == SelectSeq(fixtures, LAMBDA row : row.matchurl # NoUrl)
             valid_fixtures == SelectSeq(all_fixtures,
                                   LAMBDA row : is_valid_fbref_match_url(row.matchurl))
             scraped_urls == ElementsOf(scraped_matches)
             todo == SelectSeq(valid_fixtures,
                               LAMBDA row : row.matchurl \notin scraped_urls)
         IN  IF raised
             THEN /\ pc' = "done" /\ to_scrape' = <<>>
                  /\ log' = log \cup {"Error in process_all_matches"}
             ELSE /\ to_scrape' = todo
                  /\ pc' = (IF todo = <<>> THEN "done" ELSE "loop")
                  /\ log' = log
    /\ UNCHANGED <<fetchVars, storeVars, scoreVars, trainVars, script, df_combined_raw,
                   df_enriched, df_processed, df_live_raw, outputs,
                   scraped_matches, requests, attempt, clock, result, max_retries, delay>>

\* lines 302-324: one iteration of the loop over to_scrape
process_match ==
    /\ script = "matchlog" /\ pc = "loop" /\ to_scrape # <<>>
    /\ Len(requests) < MaxRequests
    /\ LET fixture_id == Head(to_scrape).id
           url == Head(to_scrape).matchurl
           match_id == extract_match_id_from_url(url)
       IN  /\ requests' = Append(requests, [match_id |-> match_id, url |-> url,
                                              marked |-> url \in ElementsOf(scraped_matches)])
           /\ \E response \in {"error", "empty", "ok"} :
                LET match_data == get_match_players_stats(match_id, response)
                    df == parse_match_data(match_data, url, fixture_id)
                IN  IF match_data = <<>> \/ df = <<>>
                    THEN UNCHANGED <<player_match_stats, scraped_matches>>
                    ELSE \E fail_at \in 0..Batches(df), inserted \in BOOLEAN :
                               /\ player_match_stats' =
                                     save_to_supabase(player_match_stats, df, fail_at)
                               /\ scraped_matches' =
                                     mark_as_scraped(scraped_matches, url, inserted)
    /\ to_scrape' = Tail(to_scrape)
    /\ pc' = (IF Tail(to_scrape) = <<>> THEN "done" ELSE "loop")
    /\ UNCHANGED <<fetchVars, fixtures, team_shooting_stats, team_defense_stats, now,
                   model_type, scoreVars, trainVars, script, df_combined_raw,
                   df_enriched, df_processed, df_live_raw, outputs, log,
                   attempt, clock, result, max_retries, delay>>

\* lines 339-374: the script is run again on the same store
matchlog_main ==
    /\ script = "matchlog" /\ pc = "done"
    /\ Len(requests) < MaxRequests
    /\ pc' = "start"
    /\ UNCHANGED <<fetchVars, storeVars, scoreVars, trainVars, script, df_combined_raw,
                   df_enriched, df_processed, df_live_raw, outputs, log, scrapeVars>>

(***************************************************************************)
(* scrapeTeamStats.py: TeamStatsScraper.get_team_match_stats               *)
(***************************************************************************)
MaxRetries == 4
MaxDelay == 3

\* the responses of a request: a body, HTTP 504, another HTTP error
\* status, a client timeout, any other exception
Responses == {"ok", "http_504", "http_404", "timeout", "error"}

\* the body of a successful response (data.get('data', []))
Data == "data"

\* a wait that does not grow with the attempt
wait_time_fixed(a) == 5

\* lines 342, 354: wait_time = 2 ** attempt * 5
wait_time(a) == (2 ^ a) * 5

\* a call of get_team_match_stats of a scraper built with any max_retries
\* and delay
InitTeamStats ==
    /\ PipelinesIdle
    /\ script = "teamstats" /\ pc = "loop"
    /\ fixtures = <<>> /\ player_match_stats = <<>>
    /\ scraped_matches = <<>> /\ to_scrape = <<>> /\ requests = <<>>
    /\ attempt = 0 /\ clock = 0 /\ result = Running
    /\ max_retries \in 0..MaxRetries /\ delay \in 0..MaxDelay

\* lines 309-363: one iteration of `for attempt in range(self.max_retries)`
get_team_match_stats_attempt ==
    /\ script = "teamstats" /\ pc = "loop"
    /\ attempt < max_retries
    /\ \E response \in Responses :
         LET sent == clock + (IF attempt > 0 THEN delay ELSE 0)
             again == /\ response \in {"http_504", "timeout"}
                      /\ attempt < max_retries - 1
         IN  /\ requests' = Append(requests, [attempt |-> attempt, at |-> sent,
                                              response |-> response])
             /\ IF response = "ok"
                THEN /\ result' = Data /\ pc' = "returned"
                     /\ clock' = sent /\ attempt' = attempt
                ELSE IF again
                THEN /\ clock' = sent + wait_time(attempt)
                     /\ attempt' = attempt + 1
                     /\ pc' = "loop" /\ result' = result
                ELSE /\ result' = None /\ pc' = "returned"
                     /\ clock' = sent /\ attempt' = attempt
    /\ UNCHANGED <<fetchVars, storeVars, scoreVars, trainVars, script, df_combined_raw,
                   df_enriched, df_processed, df_live_raw, outputs, log,
                   scraped_matches, to_scrape, max_retries, delay>>

\* line 365: the loop ends without a request and None is returned
get_team_match_stats_exhausted ==
    /\ script = "teamstats" /\ pc = "loop"
    /\ attempt >= max_retries
    /\ result' = None /\ pc' = "returned"
    /\ UNCHANGED <<fetchVars, storeVars, scoreVars, trainVars, script, df_combined_raw,
                   df_enriched, df_processed, df_live_raw, outputs, log,
                   scraped_matches, to_scrape, requests, attempt, clock,
                   max_retries, delay>>

InitScrape == InitMatchLog \/ InitTeamStats

NextScrape ==
    \/ process_all_matches_plan
    \/ process_match
    \/ matchlog_main
    \/ get_team_match_stats_attempt
    \/ get_team_match_stats_exhausted

SpecScrape == InitScrape /\ [][NextScrape]_vars

\* A call that has started keeps running: every request ends (a response,
\* an exception, or the client timeout of 60 seconds) and every sleep ends.
SpecScrapeFair ==
    /\ SpecScrape
    /\ WF_vars(get_team_match_stats_attempt)
    /\ WF_vars(get_team_match_stats_exhausted)

(***************************************************************************)
(* Properties of the rolling factors (calculate_ma5_factors)               *)
(***************************************************************************)
\* the values a stored statistic is replaced by
StatValues == {NaN, 0, 1, 2}

\* the last n elements of a list
LastUpTo(s, n) == SubSeq(s, Max({1, Len(s) - n + 1}), Len(s))

\* the rows of the player of row i whose timestamp is strictly before row i's
PriorRecords(df, i) ==
    Positions(df, {k \in 1..Len(df) :
        /\ df[k].player_id = df[i].player_id
        /\ df[k].match_datetime < df[i].match_datetime})

\* C1: no-lookahead for the player factor.  For every row (timestamp T) of
\* the processed frame, replacing the sot, min or npxg value of any row whose
\* timestamp is >= T (the row itself, a row of the same time, a later row)
\* leaves sot_MA5, min_MA5 and npxg_MA5 of the row unchanged.
C1_NoLookaheadPlayer ==
    script = "zip" => \A i \in 1..Len(df_processed) : \A k \in 1..Len(df_enriched) :
        df_enriched[k].match_datetime >= df_enriched[i].match_datetime =>
          \A v \in StatValues :
            /\ PlayerMA5([df_enriched EXCEPT ![k].sot = v], "sot", i)
                  = df_processed[i].sot_MA5
            /\ PlayerMA5([df_enriched EXCEPT ![k].min = v], "min", i)
                  = df_processed[i].min_MA5
            /\ PlayerMA5([df_enriched EXCEPT ![k].npxg = v], "npxg", i)
                  = df_processed[i].npxg_MA5

\* the factors have been computed for a row that follows a row of the same
\* player and the same timestamp, and that earlier row carries a value
C1_Witness ==
    script = "zip" /\ \E i \in 1..Len(df_processed) : \E k \in 1..(i - 1) :
        /\ df_enriched[k].player_id = df_enriched[i].player_id
        /\ df_enriched[k].match_datetime = df_enriched[i].match_datetime
        /\ ~IsNaN(df_enriched[k].sot)
        /\ ~IsNaNQ(df_processed[i].sot_MA5)

\* C3: the P-factor of a row is the arithmetic mean of the statistic over the
\* player's up to 5 most recent records strictly before the row's timestamp
\* (the values that exist), and is undefined when none of them has a value.
C3_PlayerFactorMean ==
    script = "zip" => \A i \in 1..Len(df_processed) :
        LET prior == LastUpTo(PriorRecords(df_enriched, i), MIN_PERIODS)
        IN  /\ df_processed[i].sot_MA5
                 = MeanOf([k \in 1..Len(prior) |-> df_enriched[prior[k]].sot])
            /\ df_processed[i].min_MA5
                 = MeanOf([k \in 1..Len(prior) |-> df_enriched[prior[k]].min])
            /\ df_processed[i].npxg_MA5
                 = MeanOf([k \in 1..Len(prior) |-> df_enriched[prior[k]].npxg])

\* a row with more than 5 earlier records of its player has its factors
C3_Witness ==
    script = "zip" /\ \E i \in 1..Len(df_processed) :
        /\ Len(PriorRecords(df_enriched, i)) > MIN_PERIODS
        /\ ~IsNaNQ(df_processed[i].sot_MA5)
        /\ df_processed[i].sot_MA5.den > 1

RECURSIVE Ascending(_)
\* the elements of a finite set of numbers in increasing order
Ascending(S) == IF S = {} THEN <<>>
                ELSE LET m == Max(S) IN Append(Ascending(S \ {m}), m)

\* the kick-off times of the matches the opponent of row i played strictly
\* before row i
OpponentMatchTimes(df, i) ==
    {df[k].match_datetime : k \in {n \in 1..Len(df) :
        /\ df[n].team_name = opponent_team(df[i])
        /\ df[n].match_datetime < df[i].match_datetime}}

\* what a team conceded in its match at time t (every row of the team for
\* that match carries the value of the team's record)
ConcededIn(df, team, t) ==
    LET k == CHOOSE n \in 1..Len(df) :
                 df[n].team_name = team /\ df[n].match_datetime = t
    IN  df[k].sot_conceded

\* the mean over the opponent's up to 5 most recent matches before row i,
\* one observation per match
OpponentMatchMean(df, i) ==
    LET times == LastUpTo(Ascending(OpponentMatchTimes(df, i)), MIN_PERIODS)
    IN  MeanOf([n \in 1..Len(times) |->
                   ConcededIn(df, opponent_team(df[i]), times[n])])

\* C2: no-lookahead for the opponent factor.  For every row (timestamp T),
\* replacing sot_conceded of any row whose timestamp is >= T leaves the
\* row's sot_conceded_MA5 unchanged, the league-average fallback included.
C2_NoLookaheadOpponent ==
    script = "zip" => \A i \in 1..Len(df_processed) : \A k \in 1..Len(df_enriched) :
        df_enriched[k].match_datetime >= df_enriched[i].match_datetime =>
          \A v \in StatValues :
            LET df == [df_enriched EXCEPT ![k].sot_conceded = v]
            IN  FillLeagueAvg(df, OpponentMA5(df, i))
                   = df_processed[i].sot_conceded_MA5

\* a row without opponent history got the league average while a later row
\* carries the metric
C2_Witness ==
    script = "zip" /\ \E i \in 1..Len(df_processed) : \E k \in 1..Len(df_enriched) :
        /\ opponent_history(df_enriched, i) = <<>>
        /\ ~IsNaNQ(df_processed[i].sot_conceded_MA5)
        /\ df_enriched[k].match_datetime > df_enriched[i].match_datetime
        /\ ~IsNaN(df_enriched[k].sot_conceded)

\* C4: for a row whose opponent has played before, sot_conceded_MA5 is the
\* mean of what the opponent conceded in its up to 5 most recent matches
\* strictly before the row's timestamp, one observation per match.
C4_OpponentFactorMean ==
    script = "zip" => \A i \in 1..Len(df_processed) :
        ~IsNaNQ(OpponentMatchMean(df_enriched, i)) =>
            df_processed[i].sot_conceded_MA5 = OpponentMatchMean(df_enriched, i)

\* a row whose opponent has played at least three matches, with two players
\* fielded in one of them
C4_Witness ==
    script = "zip" /\ \E i \in 1..Len(df_processed) :
        /\ Cardinality(OpponentMatchTimes(df_enriched, i)) >= 3
        /\ Len(opponent_history(df_enriched, i))
              > Cardinality(OpponentMatchTimes(df_enriched, i))
        /\ ~IsNaNQ(df_processed[i].sot_conceded_MA5)

\* C5: in calculate_ma5_factors of live_predictor_zip.py a row whose
\* opponent has no row before the row's timestamp gets the
\* league-wide average (the mean of sot_conceded over the rows that carry
\* it), not zero in its place; when no row carries the metric the O-factor
\* stays undefined.
C5_LeagueAverageFallback ==
    \A i \in 1..Len(df_processed) :
        script = "zip" /\ OpponentMatchTimes(df_enriched, i) = {} =>
            LET carrying == SelectSeqBy(df_enriched, {k \in 1..Len(df_enriched) :
                                ~IsNaN(df_enriched[k].sot_conceded)})
                total == SeqSum([k \in 1..Len(carrying) |-> carrying[k].sot_conceded])
            IN  IF carrying = <<>>
                THEN IsNaNQ(df_processed[i].sot_conceded_MA5)
                ELSE /\ ~IsNaNQ(df_processed[i].sot_conceded_MA5)
                     /\ df_processed[i].sot_conceded_MA5.num * Len(carrying)
                           = total * df_processed[i].sot_conceded_MA5.den

\* a row without opponent history that received a league average above zero
C5_Witness ==
    \E i \in 1..Len(df_processed) :
        /\ script = "zip"
        /\ OpponentMatchTimes(df_enriched, i) = {}
        /\ df_processed[i].sot_conceded_MA5.den > 0
        /\ df_processed[i].sot_conceded_MA5.num > 0

\* a frame in which no row carries the metric: the O-factor stays undefined
C5_WitnessNoMetric ==
    \E i \in 1..Len(df_processed) :
        /\ script = "zip"
        /\ OpponentMatchTimes(df_enriched, i) = {}
        /\ \A k \in 1..Len(df_enriched) : IsNaN(df_enriched[k].sot_conceded)
        /\ IsNaNQ(df_processed[i].sot_conceded_MA5)

(***************************************************************************)
(* Properties of the selection of rows and of the runs                     *)
(***************************************************************************)
\* C6: a row with an undefined factor reaches neither the live prediction
\* set nor the training matrix.  Every row get_live_gameweek_features
\* returns is a row of the processed frame with all four factors defined
\* and unchanged; every row prepare_features keeps has both factors defined
\* in the unscaled frame and carries its own deviation from the mean; and a
\* row whose factor is undefined has an undefined scaled value, not the
\* mean it was filled with while the scaler was fitted.
C6_UndefinedFactorExcluded ==
    /\ script = "legacy" =>
          \A n \in 1..Len(df_live_raw) :
             \E i \in 1..Len(df_processed) :
                /\ df_processed[i].player_id = df_live_raw[n].player_id
                /\ df_processed[i].match_datetime = df_live_raw[n].match_datetime
                /\ df_processed[i].team_side = df_live_raw[n].team_side
                /\ df_processed[i].sot_MA5.den > 0
                /\ df_processed[i].min_MA5.den > 0
                /\ df_processed[i].sot_conceded_MA5.den > 0
                /\ df_processed[i].tackles_att_3rd_MA5.den > 0
                /\ df_live_raw[n].sot_MA5 = df_processed[i].sot_MA5
                /\ df_live_raw[n].min_MA5 = df_processed[i].min_MA5
                /\ df_live_raw[n].sot_conceded_MA5 = df_processed[i].sot_conceded_MA5
                /\ df_live_raw[n].tackles_att_3rd_MA5
                      = df_processed[i].tackles_att_3rd_MA5
    /\ script = "zip" => \A n \in 1..Len(df_live_raw) :
          \E i \in 1..Len(df_processed) :
             /\ df_processed[i].id = df_live_raw[n].id
             /\ df_processed[i].player_id = df_live_raw[n].player_id
             /\ df_processed[i].match_datetime = df_live_raw[n].match_datetime
             /\ df_processed[i].sot_MA5.den > 0
             /\ df_processed[i].min_MA5.den > 0
             /\ df_processed[i].npxg_MA5.den > 0
             /\ df_processed[i].sot_conceded_MA5.den > 0
             /\ df_live_raw[n].sot_MA5 = df_processed[i].sot_MA5
             /\ df_live_raw[n].min_MA5 = df_processed[i].min_MA5
             /\ df_live_raw[n].npxg_MA5 = df_processed[i].npxg_MA5
             /\ df_live_raw[n].sot_conceded_MA5 = df_processed[i].sot_conceded_MA5
    /\ \A i \in 1..Len(df_scaled) :
          /\ df_pfactors[i].sot_MA5.den = 0 => df_scaled[i].sot_MA5_scaled.dev.den = 0
          /\ df_pfactors[i].sot_conceded_MA5.den = 0
                => df_scaled[i].sot_conceded_MA5_scaled.dev.den = 0
    /\ \A n \in 1..Len(X_train) :
          \E i \in 1..Len(df_pfactors) :
             /\ df_pfactors[i].player_id = X_train[n].player_id
             /\ df_pfactors[i].match_datetime = X_train[n].match_datetime
             /\ df_pfactors[i].sot_MA5.den > 0
             /\ df_pfactors[i].sot_conceded_MA5.den > 0
             /\ X_train[n].sot_MA5_scaled.dev
                   = SubQ(df_pfactors[i].sot_MA5, training_stats.sot_MA5.mean)
             /\ X_train[n].sot_conceded_MA5_scaled.dev
                   = SubQ(df_pfactors[i].sot_conceded_MA5,
                          training_stats.sot_conceded_MA5.mean)

\* the live set has been drawn while a scheduled row of the next gameweek
\* passes the minutes and rate thresholds but lacks a factor
C6_Witness ==
    /\ script = "zip" /\ pc = "qualified"
    /\ \E i \in 1..Len(df_processed) :
          /\ df_processed[i].status \in SCHEDULED_STATUSES
          /\ df_processed[i].matchweek = next_gameweek(scheduled_games(df_processed))
          /\ df_processed[i].position_group = "Forward"
          /\ GeQ(df_processed[i].min_MA5, MIN_EXPECTED_MINUTES, 1)
          /\ GeQ(df_processed[i].sot_MA5, MIN_SOT_MA5_TENTHS, 10)
          /\ IsNaNQ(df_processed[i].npxg_MA5)
          /\ \A n \in 1..Len(df_live_raw) :
                df_live_raw[n].player_id # df_processed[i].player_id

\* the training matrix has been drawn from a frame with a row that lacks
\* the O-factor only, and with rows that are kept
C6_WitnessTraining ==
    /\ pc = "prepared" /\ X_train # <<>>
    /\ \E i \in 1..Len(df_pfactors) :
          /\ IsNaNQ(df_pfactors[i].sot_conceded_MA5)
          /\ ~IsNaNQ(df_pfactors[i].sot_MA5)
          /\ ~IsNaN(df_pfactors[i].sot)

\* the source tables a script reads
RequiredTables(sc) ==
    CASE sc = "zip" -> {"fixtures", "player_match_stats", "team_shooting_stats"}
      [] sc = "legacy" -> Tables
      [] sc = "loader" -> Tables \ {"fixtures"}
      [] OTHER -> {}

SourceOf(name) ==
    CASE name = "fixtures" -> fixtures
      [] name = "player_match_stats" -> player_match_stats
      [] name = "team_shooting_stats" -> team_shooting_stats
      [] OTHER -> team_defense_stats

\* C8: when a source table the script reads is empty, the run (its
\* artifacts loaded) stops in load_and_merge_raw_data
\* (load_data_for_backtest) with the failure on the log, never reaches feature engineering, and leaves no merged frame, no
\* later frame and no output file.
C8_EmptySourceHalts ==
    (\E name \in RequiredTables(script) : SourceOf(name) = <<>>) =>
        /\ pc \in {"start", "loaded", "crashed", "returned"}
        /\ pc \notin {"start", "loaded"} => log # {}
        /\ df_combined_raw = <<>> /\ df_enriched = <<>> /\ df_processed = <<>>
        /\ df_live_raw = <<>> /\ outputs = {}

\* the ZIP predictor has stopped on an empty team table, the other tables
\* holding rows
C8_Witness ==
    /\ script = "zip" /\ pc = "crashed" /\ log # {}
    /\ team_shooting_stats = <<>> /\ fixtures # <<>> /\ player_match_stats # <<>>

\* the fixtures load_and_merge_raw_data treats as upcoming
UpcomingFixtures == df_future_fixtures(PrepFixtures(fixtures, now))

MinMatchesOf(sc) ==
    IF sc = "legacy" THEN LEGACY_MIN_MATCHES_PLAYED ELSE MIN_MATCHES_PLAYED

\* the team of the latest record of a player
CurrentTeam(p) ==
    LET mine == {i \in 1..Len(player_match_stats) :
                    player_match_stats[i].player_id = p}
        last == CHOOSE i \in mine : \A j \in mine :
                    player_match_stats[j].match_datetime
                       <= player_match_stats[i].match_datetime
    IN  player_match_stats[last].team_name

\* a placeholder row: the ZIP script's rows carry no record id
IsSynthesized(r) == IF script = "legacy" THEN r.synthesized ELSE r.id = NoId

SynthesizedFor(p, f) ==
    {i \in 1..Len(df_combined_raw) :
        /\ IsSynthesized(df_combined_raw[i])
        /\ df_combined_raw[i].player_id = p
        /\ df_combined_raw[i].match_datetime = f.datetime
        /\ df_combined_raw[i].home_team = f.home_team
        /\ df_combined_raw[i].away_team = f.away_team}

\* C9: in the merged frame every upcoming fixture has exactly one
\* placeholder row for each active player (at least MIN_MATCHES_PLAYED
\* records) of its home team and of its away team, none for other players,
\* never two for one player; the row's statistics are missing and its side,
\* matchweek and status are the fixture's.
C9_OneRowPerActivePlayer ==
    df_combined_raw # <<>> =>
      \A nf \in 1..Len(UpcomingFixtures) : \A p \in Players :
        LET f == UpcomingFixtures[nf]
            rows == SynthesizedFor(p, f)
            active == MatchCount(player_match_stats, p) >= MinMatchesOf(script)
        IN  /\ Cardinality(rows) <= 1
            /\ (active /\ CurrentTeam(p) \in {f.home_team, f.away_team})
                  => Cardinality(rows) = 1
            /\ ~active => rows = {}
            /\ \A i \in rows :
                  LET r == df_combined_raw[i]
                  IN  /\ IsNaN(r.sot) /\ IsNaN(r.min) /\ IsNaN(r.sot_conceded)
                      /\ r.team_side = (IF r.team_name = f.home_team
                                        THEN "home" ELSE "away")
                      /\ r.matchweek = f.matchweek /\ r.status = f.status

\* the older script has merged a frame for a store with an upcoming fixture
\* and a player whose records name two teams
C9_Witness ==
    /\ script = "legacy" /\ pc = "merged" /\ UpcomingFixtures # <<>>
    /\ \E i, j \in 1..Len(player_match_stats) :
          /\ player_match_stats[i].player_id = player_match_stats[j].player_id
          /\ player_match_stats[i].team_name # player_match_stats[j].team_name

\* C10: no row returned by get_live_gameweek_features belongs to a player
\* with exactly 2 records in player_match_stats.
C10_TwoMatchPlayerExcluded ==
    \A n \in 1..Len(df_live_raw) :
        MatchCount(player_match_stats, df_live_raw[n].player_id) # 2

\* the live set has been drawn from a store in which a player has exactly
\* 2 records
C10_Witness ==
    /\ pc = "qualified"
    /\ \E p \in Players : MatchCount(player_match_stats, p) = 2

(***************************************************************************)
(* Properties of the qualification filters                                 *)
(***************************************************************************)
\* the position group of a player according to the stored records
StoredGroups(p) ==
    {position_group(player_match_stats[i].summary_positions) :
        i \in {j \in 1..Len(player_match_stats) : player_match_stats[j].player_id = p}}

\* C11: no row of a goalkeeper is in the qualified prediction set: every
\* row handed to scoring belongs to a Forward, a Midfielder or a Defender
C11_NoGoalkeeperQualified ==
    \A i \in 1..Len(df_live_raw) :
        /\ "Goalkeeper" \notin StoredGroups(df_live_raw[i].player_id)
        /\ StoredGroups(df_live_raw[i].player_id)
              \subseteq {"Forward", "Midfielder", "Defender"}

\* a store with a goalkeeper whose records qualify by minutes and shots,
\* after the qualification step of a run has handed rows to scoring
C11_Witness ==
    /\ pc = "qualified" /\ df_live_raw # <<>>
    /\ \E p \in Players : "Goalkeeper" \in StoredGroups(p)

\* the stored history of the players as the training pipeline reads it
\* (player_factor_engineer.py 59-72: summary_sot is renamed to sot)
TrainingView ==
    [i \in 1..Len(player_match_stats) |->
        [player_id |-> player_match_stats[i].player_id,
         sot |-> player_match_stats[i].summary_sot,
         summary_positions |-> player_match_stats[i].summary_positions]]

\* the training filter keeps the records of player p
TrainingQualifies(p) ==
    \E i \in 1..Len(TrainingView) :
        TrainingView[i].player_id = p /\ TrainingHybridKeeps(TrainingView, i)

\* the live filter has kept the candidate row r
LiveQualifies(r) ==
    \E n \in 1..Len(df_live_raw) :
        /\ df_live_raw[n].id = r.id
        /\ df_live_raw[n].player_id = r.player_id
        /\ df_live_raw[n].match_datetime = r.match_datetime

\* C12: of the rows that reach the hybrid filter of the live predictor,
\* exactly those are kept whose player the training filter keeps on the
\* same history: every Forward and Midfielder, and a Defender if and only
\* if the long-run average of shots on target is at least 0.3
C12_HybridFilterSameAsTraining ==
    (script = "zip" /\ pc \in {"qualified", "returned"} /\ df_processed # <<>>) =>
        \A i \in 1..Len(live_candidates(df_processed)) :
            LiveQualifies(live_candidates(df_processed)[i])
               <=> TrainingQualifies(live_candidates(df_processed)[i].player_id)

\* the live filter has run on a defender row that passed the history,
\* minutes and shots filters
C12_Witness ==
    /\ script = "zip" /\ pc \in {"qualified", "returned"} /\ df_processed # <<>>
    /\ \E i \in 1..Len(live_candidates(df_processed)) :
          live_candidates(df_processed)[i].position_group = "Defender"

(***************************************************************************)
(* Properties of the scaling and scoring of the live table                 *)
(***************************************************************************)
\* the persisted scaling statistics both predictors read
PersistedProfile == files[TRAINING_STATS_FILE].content

\* a run of one of the two live predictors
LiveRun == script \in {"zip", "legacy"}

ScaledColumnsOf(sc) == IF sc = "legacy" THEN LegacyScaledColumns ELSE ZipScaledColumns

\* C13: every scaled feature of the feature frame is (x - mean) / std with
\* mean and std as persisted in the statistics file, x the raw value of the
\* row; when the persisted std is 0 the scaled value is 0.
C13_ScaledFromPersistedProfile ==
    LiveRun /\ pc \in {"scaled", "predicted"} =>
        \A i \in 1..Len(df_scaled_input.rows) : \A c \in ScaledColumnsOf(script) :
            LET v == ScaledQ(df_scaled_input.rows[i][c])
                st == PersistedProfile[StemOf(c)]
            IN  IF st.std2 = Q(0, 1) THEN v = Q(0, 1)
                ELSE MulQ(v, SqrtQ(st.std2)) = SubQ(df_live_raw[i][StemOf(c)], st.mean)

\* a feature frame scaled under statistics of which one feature has std 0
\* and another a std above 0 that gave a value other than 0
C13_Witness ==
    /\ LiveRun /\ pc = "scaled"
    /\ \E c \in ScaledColumnsOf(script) : PersistedProfile[StemOf(c)].std2 = Q(0, 1)
    /\ \E c \in ScaledColumnsOf(script), i \in 1..Len(df_scaled_input.rows) :
          /\ PersistedProfile[StemOf(c)].std2 # Q(0, 1)
          /\ ScaledQ(df_scaled_input.rows[i][c]) # Q(0, 1)

\* the features of the persisted statistics the live table has no column for
AbsentFeatures == {st \in DOMAIN PersistedProfile : st \notin ColumnsOf(df_live_raw)}

\* C14: a run whose live table lacks a feature of the persisted scaling
\* statistics does not get past scaling: no feature frame is produced and
\* no prediction is made.
C14_AbsentFeatureFailsFast ==
    LiveRun /\ pc \in {"scaled", "predicted"} => AbsentFeatures = {}

\* the qualified live table has reached scaling without a column for a
\* feature of the loaded statistics
C14_Witness ==
    /\ LiveRun /\ pc = "qualified"
    /\ AbsentFeatures # {}

\* the feature list the loaded model was fitted on is the column list of
\* the live feature frame, in the same order
FeatureListMatches ==
    /\ df_scaled_input.columns = model.exog_names
    /\ model.kind = "zip" =>
          add_constant(INFLATION_PREDICTOR_COLUMNS) = model.exog_infl_names

\* C15: a report is written only from a feature frame whose columns are
\* exactly the feature list of the model, in the model's order; with any
\* other frame the run stops before scoring.
C15_MismatchFailsFast ==
    LiveRun /\ pc = "predicted" => FeatureListMatches

\* a feature frame whose columns differ from the feature list of the
\* loaded model has been handed to run_predictions
C15_Witness ==
    /\ LiveRun /\ pc = "scaled"
    /\ ~FeatureListMatches

(***************************************************************************)
(* Properties of the artifacts and of the report                           *)
(***************************************************************************)
TrainingScripts == {"train", "trainer"}

\* C16: a step changes a file of the artifact directory only when it is the
\* saving step of a training script; every step of a live prediction run
\* leaves the model files and the statistics files as they are.
C16_ArtifactsWriteOnce ==
    [][(\E f \in ArtifactFiles : files'[f] # files[f])
          => script \in TrainingScripts /\ pc' = "saved"]_vars

\* a live run has written its report, the model file and the statistics
\* it loaded still being in the directory
C16_Witness ==
    /\ LiveRun /\ pc = "predicted"
    /\ files[PREDICTION_OUTPUT].exists
    /\ files[TRAINING_STATS_FILE].content = scaler_data
    /\ files[MODEL_FILE(model_type)].content = model

(***************************************************************************)
(* Properties of the training statistics                                   *)
(***************************************************************************)
\* feature_scaling.py 19-22
FEATURES_TO_SCALE == {"sot_MA5", "sot_conceded_MA5"}
ScaledName(f) == IF f = "sot_MA5" THEN "sot_MA5_scaled" ELSE "sot_conceded_MA5_scaled"

\* a scaled value that is NaN: a NaN operand or a division by 0
IsNaNScaled(v) == IsNaNQ(v.dev) \/ IsNaNQ(v.var) \/ v.var = Q(0, 1)
\* two scaled values are the same number
SameScaled(a, b) ==
    IF IsNaNScaled(a) \/ IsNaNScaled(b) THEN IsNaNScaled(a) /\ IsNaNScaled(b)
    ELSE \/ a = b
         \/ a.dev = Q(0, 1) /\ b.dev = Q(0, 1)

\* C17: the inference transform of scale_live_data, applied with the
\* statistics standardize_features persisted to the raw value of a training
\* row, gives the scaled value standardize_features stored for that row
\* (NaN for a row whose raw value is NaN).
C17_NormalizerRoundTrip ==
    script = "train" /\ pc \in {"scaled", "prepared"} =>
        \A i \in 1..Len(df_scaled) : \A f \in FEATURES_TO_SCALE :
            SameScaled(scale_value(df_pfactors[i][f], training_stats[f].mean,
                                   training_stats[f].std2),
                       df_scaled[i][ScaledName(f)])

\* a training frame has been scaled in which one feature has zero variance
\* and the other has a missing value that was mean-filled and a value that
\* lies off the mean
C17_Witness ==
    /\ script = "train" /\ pc = "scaled"
    /\ \E f \in FEATURES_TO_SCALE :
          /\ ScalerStats(FilledColumn(df_pfactors, f)).var = Q(0, 1)
          /\ \E i \in 1..Len(df_scaled) : ~IsNaNQ(df_pfactors[i][f])
    /\ \E f \in FEATURES_TO_SCALE, i, j \in 1..Len(df_scaled) :
          /\ IsNaNQ(df_pfactors[i][f])
          /\ ~IsNaNScaled(df_scaled[j][ScaledName(f)])
          /\ df_scaled[j][ScaledName(f)].dev # Q(0, 1)

(***************************************************************************)
(* Properties of the prediction report                                     *)
(***************************************************************************)
\* the records of the report file
ReportRows == files[PREDICTION_OUTPUT].content

\* the three threshold probabilities of a record are those of the
\* distribution fitted to the record's own row
ThresholdsOfOwnRow(r) ==
    /\ {"P_SOT_1_Plus", "P_SOT_2_Plus", "P_SOT_3_Plus"} \subseteq DOMAIN r
    /\ r.P_SOT_1_Plus = OneMinus(r.E_SOT, {0})
    /\ r.P_SOT_2_Plus = OneMinus(r.E_SOT, {0, 1})
    /\ r.P_SOT_3_Plus = OneMinus(r.E_SOT, {0, 1, 2})

\* C18: every record of the report of live_predictor_zip.py, for the
\* Poisson and for the ZIP model, carries P(count >= 1), P(count >= 2) and
\* P(count >= 3), each being 1 minus the sum of P(k) for k below the
\* threshold under the distribution fitted to that record's row.
C18_ThresholdProbabilities ==
    script = "zip" /\ pc = "predicted" =>
        \A n \in 1..Len(ReportRows) : ThresholdsOfOwnRow(ReportRows[n])

\* a report of two or more records has been written with the ZIP model
C18_Witness ==
    /\ script = "zip" /\ pc = "predicted" /\ model_type = "zip"
    /\ Len(ReportRows) >= 2


\* the place of a report row in df_raw, by its player
PlaceInRaw(r) == CHOOSE i \in 1..Len(df_live_raw) : df_live_raw[i].player_id = r.player_id

\* row a of the report may stand before row b: b's expected count is not the
\* greater one, and a row without an expected count stands before no row
\* that has one
NotBelow(a, b) ==
    IF IsNaNQ(a.E_SOT.eta) THEN IsNaNQ(b.E_SOT.eta)
    ELSE \/ IsNaNQ(b.E_SOT.eta)
         \/ a.E_SOT.eta.num * b.E_SOT.eta.den >= b.E_SOT.eta.num * a.E_SOT.eta.den

\* C19: the rows of the prediction report written by either live predictor
\* are ordered by expected count (E_SOT), non-increasing from the first row
\* to the last.
C19_ReportSortedDescending ==
    LiveRun /\ pc = "predicted" =>
        \A n \in 1..Len(ReportRows), k \in 1..Len(ReportRows) :
            n < k => NotBelow(ReportRows[n], ReportRows[k])

\* a report of rows with different expected counts that df_raw held in
\* another order
C19_Witness ==
    /\ LiveRun /\ pc = "predicted"
    /\ \E n \in 1..Len(ReportRows), k \in 1..Len(ReportRows) :
          /\ n < k
          /\ ~NotBelow(ReportRows[k], ReportRows[n])
          /\ PlaceInRaw(ReportRows[k]) < PlaceInRaw(ReportRows[n])

\* the model file the predictor opens under the MODEL_TYPE setting
DeployedModelFile == MODEL_FILE(model_type)
\* poisson_model.aic - zip_model.aic of the finished training
AicImprovement == comparison_stats.poisson_aic - comparison_stats.zip_aic
TrainerCompared == script = "trainer" /\ pc = "saved" /\ comparison_stats.poisson_fitted

\* C20: after a training that fitted both models, the ZIP model is the one
\* deployed (the one the predictor loads) only if the ZIP AIC is better than
\* the Poisson AIC by more than 10 points; for an improvement of 10 points
\* or less, a marginal or negative one included, the Poisson model is the
\* one deployed.
C20_ZipOnlyOnStrongEvidence ==
    TrainerCompared =>
        /\ DeployedModelFile = ZIP_MODEL_FILE => AicImprovement > 10
        /\ AicImprovement <= 10 => DeployedModelFile = POISSON_MODEL_FILE

\* a finished training with a marginal improvement whose ZIP model is the
\* one the predictor loads
C20_Witness ==
    /\ TrainerCompared
    /\ AicImprovement > 2 /\ AicImprovement <= 10
    /\ DeployedModelFile = ZIP_MODEL_FILE /\ files[ZIP_MODEL_FILE].exists
    /\ "MARGINAL IMPROVEMENT" \in log

(***************************************************************************)
(* Properties of the training and of the order of a run                    *)
(***************************************************************************)
\* C21: a training run whose optimizer did not converge aborts and writes
\* no model artifact: the ZIP model file a run of the trainer has written
\* holds the coefficients of a converged fit.
C21_NonConvergedNeverSaved ==
    script = "trainer" /\ ZIP_MODEL_FILE \in outputs => comparison_stats.zip_converged

\* the trainer has finished a run whose ZIP fit returned unconverged
C21_Witness ==
    /\ script = "trainer" /\ pc = "saved" /\ ~comparison_stats.zip_converged
    /\ ZIP_MODEL_FILE \in outputs /\ files[ZIP_MODEL_FILE].exists

\* the merged frame of a live run, from the store
StageMerged ==
    IF script = "zip"
    THEN MergedFrame(fixtures, player_match_stats, team_shooting_stats, now)
    ELSE LegacyMergedFrame(fixtures, player_match_stats, team_shooting_stats,
                           team_defense_stats, now)

\* the stage that follows a stage of a live run; the older script has no
\* enrichment stage
StageAfter(sc, p) ==
    CASE p = "start" -> "loaded"
      [] p = "loaded" -> "merged"
      [] p = "merged" -> IF sc = "zip" THEN "enriched" ELSE "processed"
      [] p = "enriched" -> "processed"
      [] p = "processed" -> "qualified"
      [] p = "qualified" -> "scaled"
      [] p = "scaled" -> "predicted"
      [] OTHER -> "none"

\* the frames of the stages after the stage a run stands at are not made yet
LaterStagesEmpty ==
    /\ pc \in {"start", "loaded"} => df_combined_raw = <<>>
    /\ pc \in {"start", "loaded", "merged"} => df_enriched = <<>>
    /\ pc \in {"start", "loaded", "merged", "enriched"} => df_processed = <<>>
    /\ pc \in {"start", "loaded", "merged", "enriched", "processed"} => df_live_raw = <<>>
    /\ pc \in {"start", "loaded", "merged", "enriched", "processed", "qualified"}
          => df_scaled_input = NoFeatures
    /\ pc # "predicted" => ~files[PREDICTION_OUTPUT].exists \/ ReportRows = <<>>

\* C22: a live run takes its stages in the order aggregate, position
\* enrichment, rolling factors, qualification, scaling, scoring.  Every step
\* of the run either stops it or moves it to the next stage, whose output is
\* the stage's function of the whole output of the stage before it; no
\* later stage's output exists before its turn; the store and the output of
\* a finished stage are never replaced, so the report of a run that scores
\* is computed in this run from the store through every stage.
C22_StagesInOrder ==
    [][(LiveRun /\ pc' # pc) =>
        /\ LaterStagesEmpty
        /\ \/ pc' \in {"exited", "returned", "crashed"}
           \/ /\ pc' = StageAfter(script, pc)
              /\ pc' = "merged" => df_combined_raw' = StageMerged /\ df_combined_raw' # <<>>
              /\ pc' = "enriched" => df_enriched' = clean_and_enrich(df_combined_raw)
              /\ pc' = "processed" =>
                    df_processed' = (IF script = "zip" THEN calculate_ma5(df_enriched)
                                     ELSE legacy_calculate_ma5(df_combined_raw))
              /\ pc' = "qualified" =>
                    /\ df_live_raw' = (IF script = "zip" THEN get_live_gameweek(df_processed)
                                       ELSE legacy_get_live_gameweek(df_processed))
                    /\ df_live_raw' # <<>>
              /\ pc' = "scaled" =>
                    df_scaled_input'
                       = (IF script = "zip" THEN zip_scale_live(df_live_raw, scaler_data)
                          ELSE legacy_scale_live(df_live_raw, scaler_data))
              /\ pc' = "predicted" =>
                    /\ model # NoModel
                    /\ files'[PREDICTION_OUTPUT].content
                          = (IF script = "zip"
                             THEN zip_report(model, df_scaled_input, df_live_raw, model_type)
                             ELSE legacy_report(model, df_scaled_input, df_live_raw))
        /\ UNCHANGED <<storeVars, script>>
        /\ pc' # "merged" => UNCHANGED df_combined_raw
        /\ pc' # "enriched" => UNCHANGED df_enriched
        /\ pc' # "processed" => UNCHANGED df_processed
        /\ pc' \notin {"qualified", "returned"} => UNCHANGED df_live_raw
        /\ pc' # "scaled" => UNCHANGED df_scaled_input
        /\ pc' # "loaded" => UNCHANGED <<model, scaler_data>>]_vars

\* a run has scored two or more rows
C22_Witness ==
    /\ LiveRun /\ pc = "predicted" /\ Len(ReportRows) >= 2
    /\ Len(df_processed) > Len(df_live_raw)

\* the position code of a row is missing or is no key of the mapping
PositionIssue(r) == POSITION_MAPPING(safe_extract_position(r.summary_positions)) = NoGroup

\* C23: a row whose position code is missing, malformed or unmapped is
\* dropped by clean_and_enrich_data: no row of the enriched frame has such
\* a code, so none of them carries a position group given by default.
C23_PositionIssueDropped ==
    script = "zip" => \A i \in 1..Len(df_enriched) : ~PositionIssue(df_enriched[i])

\* the enrichment has run on a merged frame with rows of a missing code and
\* rows of an unmapped code
C23_Witness ==
    /\ script = "zip" /\ pc = "enriched"
    /\ \E i, k \in 1..Len(df_combined_raw) :
          /\ df_combined_raw[i].summary_positions = <<>>
          /\ df_combined_raw[k].summary_positions # <<>>
          /\ PositionIssue(df_combined_raw[k])

(***************************************************************************)
(* Properties of the failures of a run                                     *)
(***************************************************************************)
\* an artifact file the predictor opens is missing
ArtifactMissing ==
    IF script = "zip"
    THEN zip_load_artifacts_fails(files, model_type)
    ELSE ~files[POISSON_MODEL_FILE].exists \/ ~files[TRAINING_STATS_FILE].exists

\* the run has stopped (or has not passed the failing step) and has made
\* no frame and no report
RunStopped ==
    /\ pc \in {"start", "loaded", "exited", "returned", "crashed"}
    /\ df_combined_raw = <<>> /\ df_live_raw = <<>>
    /\ PREDICTION_OUTPUT \notin outputs

\* C24: a failed page request of a source table, or a missing model or
\* scaling file, stops the live run: no frame is built and no report is
\* written from the records fetched before the failure.
C24_PipelineFailureIsFatal ==
    LiveRun /\ (fetch_error \/ ArtifactMissing) => RunStopped

\* a run whose fetch of player_match_stats failed after some pages has
\* gone past load_and_merge_raw_data
C24_Witness ==
    /\ LiveRun /\ fetch_error /\ player_match_stats # <<>>
    /\ pc \notin {"start", "loaded"}

(***************************************************************************)
(* Properties of the scoring path as a function of the opponent factor    *)
(***************************************************************************)
\* the O-factor values compared
OFactors == {Q(0, 1), Q(1, 2), Q(3, 2), Q(3, 1)}
LessQ(p, q) == p.num * q.den < q.num * p.den

\* the linear predictor log(E_SOT) the scoring path of the run gives to the
\* live row r: scale_live_data, then model.predict
EtaOf(r) ==
    IF script = "zip"
    THEN RowDist(model, zip_scale_live(<<r>>, scaler_data), "poisson", 1).eta
    ELSE RowDist(model, legacy_scale_live(<<r>>, scaler_data), "poisson", 1).eta

\* row r with the O-factor o
WithO(r, o) == [r EXCEPT !.sot_conceded_MA5 = o]
\* the player of the example: P-factor 2.0, 90 expected minutes, a forward
\* at home
ExamplePlayer(r) ==
    [r EXCEPT !.sot_MA5 = Q(2, 1), !.min_MA5 = Q(90, 1), !.summary_min = Q(90, 1),
              !.is_forward = 1, !.is_defender = 0, !.is_home = 1]

\* C25: with every other feature fixed, a larger O-factor never gives a
\* smaller expected count from scaling and scoring (E_SOT grows with its
\* linear predictor), and the example player with O-factor 1.5 gets a
\* strictly larger expected count than with O-factor 0.5.
C25_MonotoneInOpponentFactor ==
    script = "zip" /\ pc = "predicted" /\ model_type = "poisson" =>
        \A n \in 1..Len(df_live_raw) :
            /\ \A o1, o2 \in OFactors :
                  LessQ(o1, o2) =>
                     ~LessQ(EtaOf(WithO(df_live_raw[n], o2)),
                            EtaOf(WithO(df_live_raw[n], o1)))
            /\ LessQ(EtaOf(WithO(ExamplePlayer(df_live_raw[n]), Q(1, 2))),
                     EtaOf(WithO(ExamplePlayer(df_live_raw[n]), Q(3, 2))))

\* a run has scored with a model whose O-factor coefficient is negative
C25_Witness ==
    /\ script = "zip" /\ pc = "predicted" /\ model_type = "poisson"
    /\ df_live_raw # <<>>
    /\ model.params[2] < 0

(***************************************************************************)
(* Properties of the live set                                              *)
(***************************************************************************)
\* the matchweeks of the fixtures still to play
UpcomingWeeks == {UpcomingFixtures[k].matchweek : k \in 1..Len(UpcomingFixtures)}

\* the row is a placeholder: it has no record id and no recorded outcome
PlaceholderRow(r) == r.id = NoId /\ IsNaN(r.sot) /\ IsNaN(r.min)

\* C26: every row get_live_gameweek_features returns is a placeholder row,
\* without a recorded outcome, of a fixture of the next unplayed matchweek
\* (the least matchweek of the fixtures still to play); no row with
\* recorded statistics is in the set, and no player has two rows for one
\* fixture.
C26_LiveSetIsNextPeriodPlaceholders ==
    script = "zip" =>
        /\ \A n \in 1..Len(df_live_raw) :
              /\ PlaceholderRow(df_live_raw[n])
              /\ UpcomingWeeks # {} /\ df_live_raw[n].matchweek = Min(UpcomingWeeks)
        /\ \A n, k \in 1..Len(df_live_raw) :
              (/\ df_live_raw[n].player_id = df_live_raw[k].player_id
               /\ df_live_raw[n].match_datetime = df_live_raw[k].match_datetime) => n = k

\* the live set has been drawn and holds a row with a recorded outcome
C26_Witness ==
    /\ script = "zip" /\ pc = "qualified"
    /\ \E n \in 1..Len(df_live_raw) : ~PlaceholderRow(df_live_raw[n])

(***************************************************************************)
(* Properties of the end of the paginated fetch                            *)
(***************************************************************************)
\* the identifiers the fetch holds, and those of the table
HeldIds == {all_data[i].id : i \in 1..Len(all_data)}
TableIds == {player_match_stats[i].id : i \in 1..Len(player_match_stats)}

\* page k holds records, all of them seen in the pages before it
SeenPage(k) ==
    /\ pages[k] # <<>>
    /\ PageIds(k) # {}
    /\ PageIds(k) \subseteq UNION {PageIds(j) : j \in 1..(k - 1)}

\* C27: a fetch of an unchanged finite table that ends without a failed
\* request returns every record of the table; a page made only of records
\* already seen leaves no unseen record of the table out.
C27_FetchReturnsWholeTable ==
    (script = "fetch" /\ fpc = "done" /\ ~fetch_error) => TableIds \subseteq HeldIds

\* the fetch has ended on a page of seen records while the table holds
\* records it has not delivered
C27_Witness ==
    /\ script = "fetch" /\ fpc = "done" /\ ~fetch_error
    /\ pages # <<>> /\ SeenPage(Len(pages))
    /\ TableIds \ HeldIds # {}

(***************************************************************************)
(* Properties of the feature lists of training and serving                 *)
(***************************************************************************)
\* the artifact directory holds what the training scripts write: the
\* statistics of feature_scaling.py and the model of backtest_model.py
TrainedArtifacts ==
    /\ files[TRAINING_STATS_FILE].exists
    /\ DOMAIN files[TRAINING_STATS_FILE].content = FEATURES_TO_SCALE
    /\ files[POISSON_MODEL_FILE] = File(PoissonResults(BACKTEST_PREDICTOR_COLUMNS))

\* the features the ZIP predictor scales
ZipScaledStems == {StemOf(c) : c \in ZipScaledColumns}

\* C28: the feature lists of training and serving agree, so a live run on
\* the artifacts the training scripts wrote never stops on a missing
\* scaling statistic or on a column mismatch: with a full store it neither
\* exits in load_artifacts nor fails in scaling or scoring.
C28_FeatureListsAgree ==
    (/\ script = "zip" /\ model_type = "poisson" /\ TrainedArtifacts
     /\ ~ZipSourceMissing(fixtures, player_match_stats, team_shooting_stats))
        => /\ pc \notin {"exited", "crashed"}
           /\ pc \in {"scaled", "predicted"} =>
                 /\ ZipScaledStems \subseteq DOMAIN scaler_data
                 /\ df_scaled_input.columns = model.exog_names

\* a run on the artifacts of the training scripts has ended in
\* load_artifacts for the statistic of npxg_MA5
C28_Witness ==
    /\ script = "zip" /\ model_type = "poisson" /\ TrainedArtifacts
    /\ pc = "exited" /\ "npxg_MA5 not found in training_stats.json!" \in log

(***************************************************************************)
(* Properties of the scrapers                                              *)
(***************************************************************************)
\* the rows of player_match_stats of the match of a URL
StoredOf(url) ==
    {i \in 1..Len(player_match_stats) : player_match_stats[i].match_url = url}

\* every player record the API holds for the match is in the store
RecordsComplete(url) ==
    \A n \in 1..RosterSize(url.match_id) :
        \E i \in StoredOf(url) : player_match_stats[i].player_id = n

\* no player record of the match is in the store twice
InsertedOnce(url) ==
    \A i, j \in StoredOf(url) :
        player_match_stats[i].player_id = player_match_stats[j].player_id => i = j

\* no request was sent for a URL that was in scraped_matches
NeverFetchedAgain ==
    \A k \in 1..Len(requests) : ~requests[k].marked

\* C29: after any sequence of runs and failures of process_all_matches,
\* every match marked as scraped has all its player records in the store,
\* no player record of a match is in the store twice, and no request was
\* sent for a URL already recorded in scraped_matches.
C29_ScrapedMatchesStoredOnce ==
    script = "matchlog" =>
        /\ \A k \in 1..Len(scraped_matches) : RecordsComplete(scraped_matches[k])
        /\ \A q \in 1..Len(fixtures) : InsertedOnce(fixtures[q].matchurl)
        /\ NeverFetchedAgain

\* a run has stored every record of a match and marked it, and a later run
\* has skipped that match
C29_Witness ==
    /\ script = "matchlog" /\ pc = "done"
    /\ Len(scraped_matches) >= 1 /\ RecordsComplete(scraped_matches[1])
    /\ InsertedOnce(scraped_matches[1])
    /\ Len(requests) >= 2 /\ requests[2].url # scraped_matches[1]

\* the responses after which get_team_match_stats sends another request
Retriable(k) ==
    /\ requests[k].response \in {"http_504", "timeout"}
    /\ requests[k].attempt < max_retries - 1

\* the seconds between request k and the request after it
WaitAfter(k) == requests[k + 1].at - requests[k].at

\* what get_team_match_stats has done so far, but for the waits: at most
\* max_retries requests, numbered from 0; a request follows only a
\* retriable response; any other response ends the call at once, with the
\* body of a successful response and None otherwise; without a request the
\* call returns None
RetriesBounded ==
    /\ Len(requests) <= max_retries
    /\ \A k \in 1..Len(requests) :
          /\ requests[k].attempt = k - 1
          /\ k < Len(requests) => Retriable(k)
          /\ ~Retriable(k) => k = Len(requests) /\ pc = "returned"
    /\ pc = "loop" => result = Running
    /\ pc = "returned" =>
          result = (IF requests # <<>> /\ requests[Len(requests)].response = "ok"
                    THEN Data ELSE None)

\* C30 (as stated): the wait between a failed request and its retry is
\* 5 * 2^attempt seconds.
C30_WaitIsBackoff ==
    script = "teamstats" =>
        /\ RetriesBounded
        /\ \A k \in 1..(Len(requests) - 1) : WaitAfter(k) = 5 * 2 ^ (k - 1)

\* C30: get_team_match_stats sends at most max_retries requests and always
\* returns; it retries only after an HTTP 504 or a client timeout while
\* attempts remain, waiting 5 * 2^attempt seconds and then the rate-limit
\* delay before the retry; on any other error, or once the attempts are
\* exhausted, it returns None without another request, and it returns the
\* body of a successful response at once.
C30_BoundedRetriesAndReturn ==
    /\ [](script = "teamstats" =>
            /\ RetriesBounded
            /\ \A k \in 1..(Len(requests) - 1) :
                  WaitAfter(k) = 5 * 2 ^ (k - 1) + delay)
    /\ (script = "teamstats" ~> pc = "returned")

\* a call has returned the body of the third request, after two retries
\* with a positive rate-limit delay
C30_Witness ==
    /\ script = "teamstats" /\ pc = "returned" /\ result = Data
    /\ Len(requests) = 3 /\ delay > 0
    /\ requests[1].response = "http_504" /\ requests[2].response = "timeout"
====
